---- MODULE Spec2Model ----
(***************************************************************************)
(* A model of sift (github.com/svent/sift): the streaming match engine     *)
(* (processReader, getMatches, countLines) and the target pipeline         *)
(* (executeSearch, processFileTargets, processNetworkTarget,               *)
(* resultHandler, printResult).                                            *)
(*                                                                         *)
(* Byte offsets are 0-based as in the Go source; TLA+ sequences are        *)
(* 1-based, so Go's data[i] is At(data, i) and data[lo:hi] is              *)
(* Slice(data, lo, hi).                                                    *)
(***************************************************************************)
EXTENDS Integers, Sequences, FiniteSets, TLC

\* ------------------------------------------------------------------ bytes
NL == "\n"
NUL == "NUL"
Bytes == {"a", "b", "A", NL, NUL}

At(data, i) == data[i + 1]
Slice(data, lo, hi) == SubSeq(data, lo + 1, hi)
Min(x, y) == IF x < y THEN x ELSE y

\* A copy that leaves the buffer as it is.
copyNothing(data, dlo, dhi, slo, shi) == data

\* Go's builtin copy(data[dlo:dhi], data[slo:shi]) on one buffer (memmove).
copy(data, dlo, dhi, slo, shi) ==
  LET n == Min(dhi - dlo, shi - slo)
  IN [i \in 1..Len(data) |->
        IF i > dlo /\ i <= dlo + n THEN data[slo + (i - dlo)] ELSE data[i]]

\* make([]byte, size)
makeBuffer(size) == [i \in 1..size |-> NUL]

\* reader.Read(data[at:]) having delivered the bytes of chunk.
ReadInto(data, at, chunk) ==
  [i \in 1..Len(data) |->
     IF i > at /\ i <= at + Len(chunk) THEN chunk[i - at] ELSE data[i]]

\* ------------------------------------------------------- program constants
\* InputMultilineWindow (32 * 1024 in the source), scaled to the model's inputs.
InputMultilineWindow == 2
\* InputBlockSize (256 * 1024 or --blocksize in the source), scaled likewise.
BlockSize == 4
\* global.streamingThreshold (1 << 16 in the source), scaled likewise.
StreamingThreshold == 2
\* The number of leading bytes inspected for 0x00.
BinaryCheckLen == 256
\* Capacity of a streaming Result's matchChan (16 in the source), scaled.
MatchChanCap == 1
\* Capacity of global.resultsChan (128 in the source), scaled.
ResultsChanCap == 1
\* Capacity of global.filesChan (256 in the source), scaled.
FilesChanCap == 1

\* ------------------------------------------------------------------ bounds
\* Longest input of the engine specification.
MaxLen == 4

\* ----------------------------------------------------- regexp (Go library)
\* A compiled regexp is [m, s, atoms]: the flags (?m) and (?s) and a sequence
\* of atoms, each one byte class ("one"), a greedy repetition of a class
\* ("star"), '.' ("dot") or the assertion '^' ("bol").  Matching is
\* leftmost-first with backtracking, as Go's regexp package defines it.
Cls(re, at) ==
  IF at.k = "dot" THEN (IF re.s THEN Bytes ELSE Bytes \ {NL}) ELSE at.cls

RECURSIVE RunLen(_, _, _)
\* Number of consecutive bytes of text from offset i that lie in cls.
RunLen(cls, text, i) ==
  IF i < Len(text) /\ At(text, i) \in cls THEN 1 + RunLen(cls, text, i + 1) ELSE 0

RECURSIVE MatchHere(_, _, _, _)
RECURSIVE StarTry(_, _, _, _, _)
\* End offset of the preferred match of atoms k.. of re at offset i, or -1.
MatchHere(re, k, text, i) ==
  IF k > Len(re.atoms) THEN i
  ELSE LET at == re.atoms[k] IN
    CASE at.k = "bol" ->
           IF i = 0 \/ (re.m /\ At(text, i - 1) = NL)
           THEN MatchHere(re, k + 1, text, i) ELSE -1
      [] at.k = "star" ->
           StarTry(re, k, text, i, RunLen(Cls(re, at), text, i))
      [] OTHER ->
           IF i < Len(text) /\ At(text, i) \in Cls(re, at)
           THEN MatchHere(re, k + 1, text, i + 1) ELSE -1

StarTry(re, k, text, i, j) ==
  IF j < 0 THEN -1
  ELSE LET r == MatchHere(re, k + 1, text, i + j)
       IN IF r # -1 THEN r ELSE StarTry(re, k, text, i, j - 1)

RECURSIVE doExecute(_, _, _)
\* The leftmost match of re in text starting at or after pos: <<start, end>>,
\* or <<>> when there is none.
doExecute(re, text, pos) ==
  IF pos > Len(text) THEN <<>>
  ELSE LET e == MatchHere(re, 1, text, pos)
       IN IF e # -1 THEN <<pos, e>> ELSE doExecute(re, text, pos + 1)

\* regexp.FindIndex
FindIndex(re, text) == doExecute(re, text, 0)

\* regexp.Match
RegexMatch(re, text) == doExecute(re, text, 0) # <<>>

RECURSIVE allMatches(_, _, _, _, _)
\* regexp.FindAllIndex(text, -1): successive non-overlapping matches; an empty
\* match directly after the previous match is skipped.
allMatches(re, text, pos, prevMatchEnd, acc) ==
  IF pos > Len(text) THEN acc
  ELSE LET m == doExecute(re, text, pos) IN
    IF m = <<>> THEN acc
    ELSE LET empty == (m[2] = pos)
             accept == ~(empty /\ m[1] = prevMatchEnd)
             next == IF empty THEN pos + 1 ELSE m[2]
         IN allMatches(re, text, next, m[2], IF accept THEN Append(acc, m) ELSE acc)

FindAllIndex(re, text) == allMatches(re, text, 0, -1, <<>>)

\* The patterns of the model, as the user writes them.
PatA == [atoms |-> << [k |-> "one", cls |-> {"a"}] >>]
PatBol == [atoms |-> << [k |-> "bol", cls |-> {}] >>]
PatNotBA == [atoms |-> << [k |-> "one", cls |-> Bytes \ {"b"}],
                          [k |-> "one", cls |-> {"a"}] >>]
PatANLPlus == [atoms |-> << [k |-> "one", cls |-> {"a", NL}],
                            [k |-> "star", cls |-> {"a", NL}] >>]
PatB == [atoms |-> << [k |-> "one", cls |-> {"b"}] >>]
\* The pattern "(": a group that is not closed.
PatOpenParen == [atoms |-> << [k |-> "lparen", cls |-> {}] >>]

\* regexp.Compile(pattern) returns no error: every group is closed.
compiles(pattern) == \A i \in 1..Len(pattern.atoms) : pattern.atoms[i].k # "lparen"

\* A pattern as text: a sequence of characters, [text |-> <<...>>].  The
\* characters of the model's texts are letters, '\\' before the class letters
\* s and S, and '[', '-', ']' around a range of two letters.
Backslash == "\\"

\* The code of a character (ASCII).
ByteCode(c) ==
  CASE c = NUL -> 0 [] c = NL -> 10 [] c = "-" -> 45
    [] c = "A" -> 65 [] c = "B" -> 66 [] c = "S" -> 83
    [] c = "[" -> 91 [] c = Backslash -> 92 [] c = "]" -> 93
    [] c = "a" -> 97 [] c = "b" -> 98 [] c = "s" -> 115

\* unicode.ToLower on the characters of the model.
toLowerRune(c) ==
  IF ByteCode(c) >= 65 /\ ByteCode(c) <= 90
  THEN CHOOSE d \in {"a", "b", "s"} : ByteCode(d) = ByteCode(c) + 32
  ELSE c

\* strings.ToLower(pattern)
ToLower(text) == [i \in 1..Len(text) |-> toLowerRune(text[i])]

\* The Perl classes of regexp/syntax over the bytes of the model: \s is
\* [\t\n\f\r ], \S is every other byte.
perlClass(c) == IF c = "s" THEN {NL} ELSE Bytes \ {NL}

RECURSIVE Parse(_, _, _)
\* regexp/syntax.Parse on text from index i: an escape, a range [x-y] or a
\* literal character, each one atom.
Parse(text, i, acc) ==
  IF i > Len(text) THEN acc
  ELSE IF text[i] = Backslash
  THEN Parse(text, i + 2, Append(acc, [k |-> "one", cls |-> perlClass(text[i + 1])]))
  ELSE IF text[i] = "["
  THEN Parse(text, i + 5,
             Append(acc, [k |-> "one",
                          cls |-> {c \in Bytes \cup {"B"} :
                                     /\ ByteCode(text[i + 1]) <= ByteCode(c)
                                     /\ ByteCode(c) <= ByteCode(text[i + 3])}]))
  ELSE Parse(text, i + 1, Append(acc, [k |-> "one", cls |-> {text[i]}]))

\* A preparePattern that leaves the case of the pattern text as it is.
preparePatternKeepCase(o, pattern) ==
  [m |-> TRUE, s |-> o.Multiline,
   atoms |-> IF "text" \in DOMAIN pattern THEN Parse(pattern.text, 1, <<>>)
             ELSE pattern.atoms]

\* preparePattern followed by regexp.Compile: (?m) always, (?s) in multiline
\* mode, and strings.ToLower on the text with options.IgnoreCase.  A pattern
\* given as atoms stands for a text without upper-case letters, which
\* strings.ToLower leaves as it is.
preparePattern(o, pattern) ==
  [m |-> TRUE, s |-> o.Multiline,
   atoms |-> IF "text" \in DOMAIN pattern
             THEN Parse(IF o.IgnoreCase THEN ToLower(pattern.text) ELSE pattern.text,
                        1, <<>>)
             ELSE pattern.atoms]

\* ------------------------------------------------------------------ Match
\* A *string: nil, or a pointer to the text.
NilString == [nil |-> TRUE, text |-> <<>>]
StringPtr(text) == [nil |-> FALSE, text |-> text]

\* type Match (contextAfter is not modelled: options.ContextAfter is 0 in
\* this model).
NewMatch(conditionID, start, end, lineStart, lineEnd, match, line) ==
  [conditionID |-> conditionID, start |-> start, end |-> end,
   lineStart |-> lineStart, lineEnd |-> lineEnd,
   match |-> match, line |-> line, lineno |-> 0, contextBefore |-> NilString]

\* Match{}: the zero value, sent as a marker by the list options.
ZeroMatch == NewMatch(0, 0, 0, 0, 0, <<>>, <<>>)

\* --------------------------------------------------------------- getMatches
RECURSIVE trimStart(_, _, _, _)
\* "remove newlines at the beginning of the match"
trimStart(data, start, end, length) ==
  IF start < length /\ end > start /\ At(data, start) = NL
  THEN trimStart(data, start + 1, end, length) ELSE start

RECURSIVE trimEnd(_, _, _)
\* "remove newlines at the end of the match"
trimEnd(data, start, end) ==
  IF end > 0 /\ end > start /\ At(data, end - 1) = NL
  THEN trimEnd(data, start, end - 1) ELSE end

RECURSIVE scanLineStart(_, _)
\* for lineStart > 0 && data[lineStart-1] != 0x0a { lineStart-- }
scanLineStart(data, lineStart) ==
  IF lineStart > 0 /\ At(data, lineStart - 1) # NL
  THEN scanLineStart(data, lineStart - 1) ELSE lineStart

RECURSIVE scanLineEnd(_, _, _)
\* for lineEnd < length && data[lineEnd] != 0x0a { lineEnd++ }
scanLineEnd(data, lineEnd, length) ==
  IF lineEnd < length /\ At(data, lineEnd) # NL
  THEN scanLineEnd(data, lineEnd + 1, length) ELSE lineEnd

\* A containsNewline that never sees a newline: no raw match is split.
containsNewlineNever(data, start, end) == FALSE

\* bytes.Contains(data[start:end], []byte{0x0a})
containsNewline(data, start, end) ==
  \E i \in start..(end - 1) : At(data, i) = NL

RECURSIVE splitLinesThroughNewline(_, _, _, _, _, _, _)
\* A loop that appends each per-line candidate up to and including the
\* newline that ends its line.
splitLinesThroughNewline(regex, data, testBuffer, lineEnd, lastStart, pos, acc) ==
  IF pos >= lineEnd THEN acc
  ELSE IF At(data, pos) = NL \/ pos = lineEnd - 1
  THEN LET pos2 == IF pos = lineEnd - 1 /\ At(data, pos) # NL THEN pos + 1 ELSE pos
           idx == FindIndex(regex, Slice(testBuffer, lastStart, pos2))
           acc2 == IF idx # <<>>
                   THEN Append(acc, <<lastStart + idx[1], Min(pos2 + 1, lineEnd)>>)
                   ELSE acc
       IN splitLinesThroughNewline(regex, data, testBuffer, lineEnd, pos2 + 1, pos2 + 1, acc2)
  ELSE splitLinesThroughNewline(regex, data, testBuffer, lineEnd, lastStart, pos + 1, acc)

RECURSIVE splitLines(_, _, _, _, _, _, _)
\* The loop that re-matches the regex within each line of a match that spans
\* several lines; acc collects the [start, end] pairs it appends to allIndex.
splitLines(regex, data, testBuffer, lineEnd, lastStart, pos, acc) ==
  IF pos >= lineEnd THEN acc
  ELSE IF At(data, pos) = NL \/ pos = lineEnd - 1
  THEN LET pos2 == IF pos = lineEnd - 1 /\ At(data, pos) # NL THEN pos + 1 ELSE pos
           idx == FindIndex(regex, Slice(testBuffer, lastStart, pos2))
           acc2 == IF idx # <<>>
                   THEN Append(acc, <<lastStart + idx[1], lastStart + idx[2]>>)
                   ELSE acc
       IN splitLines(regex, data, testBuffer, lineEnd, pos2 + 1, pos2 + 1, acc2)
  ELSE splitLines(regex, data, testBuffer, lineEnd, lastStart, pos + 1, acc)

RECURSIVE scanContextBefore(_, _, _, _)
\* "for contextBeforeStart > 0 { ... }": walks back from contextBeforeStart
\* over the newlines, up to the one that ends the line before the
\* ContextBefore preceding lines.
scanContextBefore(data, contextBeforeStart, precedingLinesFound, ContextBefore) ==
  IF contextBeforeStart <= 0
  THEN [contextBeforeStart |-> contextBeforeStart,
        precedingLinesFound |-> precedingLinesFound]
  ELSE IF At(data, contextBeforeStart - 1) = NL
  THEN IF precedingLinesFound + 1 = ContextBefore
       THEN [contextBeforeStart |-> contextBeforeStart,
             precedingLinesFound |-> precedingLinesFound + 1]
       ELSE scanContextBefore(data, contextBeforeStart - 1, precedingLinesFound + 1,
                              ContextBefore)
  ELSE scanContextBefore(data, contextBeforeStart - 1, precedingLinesFound, ContextBefore)

\* getBeforeContextFromFile(target, offset, start): file holds the bytes of
\* the target and InputBlockSize; reader.Read fills the buffer of count bytes
\* as far as the file reaches from seekPosition.
getBeforeContextFromFile(file, offset, start, ContextBefore) ==
  LET seekPosition == IF offset + start - file.InputBlockSize < 0 THEN 0
                      ELSE offset + start - file.InputBlockSize
      count == IF offset = 0 /\ start < file.InputBlockSize THEN start
               ELSE file.InputBlockSize
      buffer == ReadInto(makeBuffer(count), 0,
                         Slice(file.input, seekPosition,
                               Min(seekPosition + count, Len(file.input))))
      lineStart == scanLineStart(buffer, Len(buffer))
      sc == scanContextBefore(buffer, lineStart - 1, 0, ContextBefore)
  IN IF lineStart > 0
     THEN StringPtr(Slice(buffer, sc.contextBeforeStart, lineStart - 1))
     ELSE NilString

\* "if options.ContextBefore > 0 { ... }" in getMatches: the context of the
\* match that starts at start on the line that starts at lineStart.
contextBeforeOf(g, start, lineStart) ==
  IF g.ContextBefore > 0
  THEN IF lineStart > 0
       THEN LET sc == scanContextBefore(g.data, lineStart - 1, 0, g.ContextBefore)
            IN IF /\ sc.precedingLinesFound < g.ContextBefore
                  /\ sc.contextBeforeStart = 0 /\ g.offset > 0
               THEN getBeforeContextFromFile(g.file, g.offset, start, g.ContextBefore)
               ELSE StringPtr(Slice(g.data, sc.contextBeforeStart, lineStart - 1))
       ELSE IF g.offset > 0
            THEN getBeforeContextFromFile(g.file, g.offset, start, g.ContextBefore)
            ELSE NilString
  ELSE NilString

RECURSIVE getMatchesLoop(_, _, _, _)
\* The loop of getMatches over allIndex, which grows while it is iterated.
\* g holds the arguments of getMatches and options.Multiline.  The loop ends
\* with the matches and with allIndex as the appends have left it.
getMatchesLoop(g, allIndex, mi, matches) ==
  IF mi > Len(allIndex) THEN [matches |-> matches, allIndex |-> allIndex]
  ELSE
    LET index == allIndex[mi]
        start == IF g.multiline THEN index[1]
                 ELSE trimStart(g.data, index[1], index[2], g.length)
        end == IF g.multiline THEN index[2] ELSE trimEnd(g.data, start, index[2])
    IN
    IF ~g.multiline /\ ~RegexMatch(g.regex, Slice(g.testBuffer, start, end))
    THEN getMatchesLoop(g, allIndex, mi + 1, matches)
    ELSE IF ~g.multiline /\ containsNewline(g.data, start, end)
    THEN LET ls == scanLineStart(g.data, start)
             le == scanLineEnd(g.data, end, g.length)
             more == splitLines(g.regex, g.data, g.testBuffer, le, ls, ls + 1, <<>>)
         IN getMatchesLoop(g, allIndex \o more, mi + 1, matches)
    ELSE IF g.multiline /\ start >= g.validMatchRange
    THEN getMatchesLoop(g, allIndex, mi + 1, matches)
    ELSE
      LET lineStart == scanLineStart(g.data, start)
          lineEnd == scanLineEnd(g.data, end, g.length)
          m == [NewMatch(g.conditionID, g.offset + start, g.offset + end,
                         g.offset + lineStart, g.offset + lineEnd,
                         Slice(g.data, start, end), Slice(g.data, lineStart, lineEnd))
                  EXCEPT !.contextBefore = contextBeforeOf(g, start, lineStart)]
      IN \* "handle special case where '^' matches after the last newline"
         getMatchesLoop(g, allIndex, mi + 1,
                        IF lineStart # g.validMatchRange THEN Append(matches, m)
                        ELSE matches)

\* getMatches(regex, data, testBuffer, offset, length, validMatchRange,
\* conditionID, target) under options o; file is what the target names: its
\* bytes, with InputBlockSize.
getMatches(o, regex, data, testBuffer, offset, length, validMatchRange, conditionID, file) ==
  getMatchesLoop([regex |-> regex, data |-> data, testBuffer |-> testBuffer,
                  offset |-> offset, length |-> length,
                  validMatchRange |-> validMatchRange, conditionID |-> conditionID,
                  multiline |-> o.Multiline, ContextBefore |-> o.ContextBefore,
                  file |-> file],
                 FindAllIndex(regex, testBuffer), 1, <<>>).matches

\* ------------------------------------------------------ sort.Sort(Matches)
\* Matches.Less
Less(x, y) == x.start < y.start

RECURSIVE insertSorted(_, _)
\* One insertion of sort.Sort's insertion sort (the algorithm package sort
\* runs on slices of fewer than 12 elements): m moves left past every element
\* it is Less than.
insertSorted(sorted, m) ==
  IF sorted = <<>> \/ ~Less(m, sorted[Len(sorted)]) THEN Append(sorted, m)
  ELSE Append(insertSorted(SubSeq(sorted, 1, Len(sorted) - 1), m), sorted[Len(sorted)])

RECURSIVE sortMatches(_, _)
sortMatches(ms, acc) ==
  IF ms = <<>> THEN acc ELSE sortMatches(Tail(ms), insertSorted(acc, Head(ms)))

Sort(ms) == sortMatches(ms, <<>>)

\* ----------------------------------------------- "filter duplicates" loop
NoMatch == [none |-> TRUE]

\* validMatch admitting a candidate on the line of the previous match.
validMatchSameLine(o, prevMatch, m) ==
  \/ prevMatch = NoMatch
  \/ (~o.Multiline /\ m.lineEnd >= prevMatch.lineEnd)
  \/ (o.Multiline /\ m.start >= prevMatch.end)

\* validMatch comparing the candidate's start with the previous match's start.
validMatchOverlap(o, prevMatch, m) ==
  \/ prevMatch = NoMatch
  \/ (~o.Multiline /\ m.lineEnd > prevMatch.lineEnd)
  \/ (o.Multiline /\ m.start >= prevMatch.start)

\* The test of the filter loop: may m follow prevMatch?
validMatch(o, prevMatch, m) ==
  \/ prevMatch = NoMatch
  \/ (~o.Multiline /\ m.lineEnd > prevMatch.lineEnd)
  \/ (o.Multiline /\ m.start >= prevMatch.end)

RECURSIVE filterDuplicates(_, _, _, _)
\* Walks the sorted newMatches keeping each match that validMatch admits after
\* the last kept one (initially lastMatch of the previous blocks).
filterDuplicates(o, newMatches, prevMatch, acc) ==
  IF newMatches = <<>> THEN acc
  ELSE IF validMatch(o, prevMatch, Head(newMatches))
  THEN filterDuplicates(o, Tail(newMatches), Head(newMatches), Append(acc, Head(newMatches)))
  ELSE filterDuplicates(o, Tail(newMatches), prevMatch, acc)

\* ---------------------------------------------------------------- countLines
\* A countNewlines that counts nothing.
countNewlinesNone(data, length) == 0

\* countNewlines (matching_cgo.go): newlines in data[0:length].
countNewlines(data, length) ==
  Cardinality({i \in 0..(length - 1) : At(data, i) = NL})

RECURSIVE assignLineno(_, _, _, _)
\* for cur < len(ms) && bound >= ms[cur].lineStart { ms[cur].lineno = lineCount; cur++ }
\* cur is the 0-based index; the result is [ms, cur].
assignLineno(ms, cur, bound, lineCount) ==
  IF cur < Len(ms) /\ bound >= ms[cur + 1].lineStart
  THEN assignLineno([ms EXCEPT ![cur + 1].lineno = lineCount], cur + 1, bound, lineCount)
  ELSE [ms |-> ms, cur |-> cur]

RECURSIVE countLinesLoop(_, _, _, _, _, _, _, _, _)
\* for i := 0; i < validMatchRange; i++ { if data[i] == 0xa { ... lineCount++ } }
countLinesLoop(data, offset, validMatchRange, i, ms, cur, cms, ccur, lineCount) ==
  IF i >= validMatchRange
  THEN [ms |-> ms, cur |-> cur, cms |-> cms, ccur |-> ccur, lineCount |-> lineCount]
  ELSE IF At(data, i) = NL
  THEN LET a == assignLineno(ms, cur, offset + i, lineCount)
           b == assignLineno(cms, ccur, offset + i, lineCount)
       IN countLinesLoop(data, offset, validMatchRange, i + 1,
                         a.ms, a.cur, b.ms, b.cur, lineCount + 1)
  ELSE countLinesLoop(data, offset, validMatchRange, i + 1, ms, cur, cms, ccur, lineCount)

\* countLines: the new line count and the two match lists with lineno set.
countLines(data, lastConditionMatch, matches, conditionMatches, offset, validMatchRange, lineCount) ==
  LET currentMatch == 0
      currentConditionMatch == lastConditionMatch + 1
  IN
  IF currentMatch < Len(matches) \/ currentConditionMatch < Len(conditionMatches)
  THEN LET r == countLinesLoop(data, offset, validMatchRange, 0, matches, currentMatch,
                               conditionMatches, currentConditionMatch, lineCount)
           \* "check for matches on last line without newline"
           a == assignLineno(r.ms, r.cur, offset + validMatchRange, r.lineCount)
           b == assignLineno(r.cms, r.ccur, offset + validMatchRange, r.lineCount)
       IN [lineCount |-> r.lineCount, matches |-> a.ms, conditionMatches |-> b.ms]
  ELSE [lineCount |-> lineCount + countNewlines(data, validMatchRange),
        matches |-> matches, conditionMatches |-> conditionMatches]

\* bytesToLower (matching_cgo.go): ASCII upper-case letters to lower case.
toLowerByte(b) == IF b = "A" THEN "a" ELSE IF b = "B" THEN "b" ELSE b

bytesToLower(input, length) ==
  [i \in 1..Len(input) |-> IF i <= length THEN toLowerByte(input[i]) ELSE input[i]]


\* ------------------------------------------------------------------ Result
NoResult == [none |-> TRUE]

\* &Result{target, matches, conditionMatches, streaming, isBinary}; the
\* matchChan of a streaming Result is the channel of its target.
NewResult(target, matches, conditionMatches, streaming, isBinary) ==
  [target |-> target, matches |-> matches, conditionMatches |-> conditionMatches,
   streaming |-> streaming, isBinary |-> isBinary]

\* ------------------------------------------------------------ processReader
\* The local variables of processReader at the top of its loop.  data is the
\* worker's dataBuffer; rpos is the reader's position in the target.  pc is
\* "loop" while the loop runs and "returned" after a return, err the returned
\* error; outResult / outBatch are what the last iteration sent on
\* global.resultsChan / matchChan, and candidates is the number of primary
\* candidates getMatches returned in it (before the duplicate filter).
processReaderInit(dataBuffer) ==
  [data |-> dataBuffer, rpos |-> 0,
   bufferOffset |-> 0, isEOF |-> FALSE, lastInputBlockSize |-> 0,
   lastMatch |-> NoMatch, lastRoundMultilineWindow |-> FALSE,
   lastSeekAmount |-> 0, lastValidMatchRange |-> 0, linecount |-> 1,
   matchCount |-> 0, offset |-> 0, resultIsBinary |-> FALSE,
   resultStreaming |-> FALSE, validMatchRange |-> 0,
   matches |-> <<>>, conditionMatches |-> <<>>,
   pc |-> "loop", err |-> "nil", how |-> "", outResult |-> NoResult, outBatch |-> <<>>,
   candidates |-> 0]

\* "return err" / "return nil" inside the loop; how names the return statement
\* taken ("binarySkip", "lineTooLong", "readError", "listOption").
returnFrom(e, err, how) == [e EXCEPT !.pc = "returned", !.err = err, !.how = how]

\* An afterLoop that sends the final Result also after a streaming Result.
afterLoopAlwaysSends(c, e) ==
  [e EXCEPT !.pc = "returned",
            !.how = IF e.isEOF THEN "eof" ELSE "limit",
            !.outResult = NewResult(c.target, e.matches, e.conditionMatches,
                                    FALSE, e.resultIsBinary)]

\* The code after the loop: the Result of a target that did not stream.
afterLoop(c, e) ==
  [e EXCEPT !.pc = "returned",
            !.how = IF e.isEOF THEN "eof" ELSE "limit",
            !.outResult = IF ~e.resultStreaming
                          THEN NewResult(c.target, e.matches, e.conditionMatches,
                                         FALSE, e.resultIsBinary)
                          ELSE @]

\* The end of an iteration: "copy the bytes not processed after the last
\* newline to the beginning of the buffer", advance offset, and leave the loop
\* at its top when isEOF.
endOfIteration(c, e) ==
  LET e1 == IF e.lastSeekAmount > 0
            THEN [e EXCEPT !.data = copy(e.data, e.bufferOffset,
                                         e.bufferOffset + e.lastSeekAmount,
                                         e.lastValidMatchRange - e.lastSeekAmount,
                                         e.lastValidMatchRange),
                           !.bufferOffset = @ + e.lastSeekAmount]
            ELSE e
      e2 == [e1 EXCEPT !.offset = @ + e.validMatchRange]
  IN IF e2.isEOF THEN afterLoop(c, e2) ELSE e2

\* The file a call's target names, as getBeforeContextFromFile opens it.
fileOf(c) == [input |-> c.input, InputBlockSize |-> c.InputBlockSize]

RECURSIVE gatherMatches(_, _, _, _, _, _)
\* for _, re := range matchRegexes { newMatches = append(newMatches, getMatches(...)...) }
gatherMatches(c, e, testDataPtr, regexes, i, acc) ==
  IF i > Len(regexes) THEN acc
  ELSE gatherMatches(c, e, testDataPtr, regexes, i + 1,
         acc \o getMatches(c.options, regexes[i], e.data, testDataPtr, e.offset,
                           e.lastInputBlockSize, e.validMatchRange, 0, fileOf(c)))

RECURSIVE gatherConditionMatches(_, _, _, _, _)
\* for conditionID, condition := range global.conditions { ... }
gatherConditionMatches(c, e, testDataPtr, i, acc) ==
  IF i > Len(c.global.conditions) THEN acc
  ELSE gatherConditionMatches(c, e, testDataPtr, i + 1,
         acc \o getMatches(c.options, c.global.conditions[i].regex, e.data, testDataPtr,
                           e.offset, e.lastInputBlockSize, e.validMatchRange, i - 1,
                           fileOf(c)))

\* "if a list option is used exit here if possible"
listOptionExit(c) ==
  /\ (c.options.FilesWithMatches \/ c.options.FilesWithoutMatch)
  /\ ~c.options.Count
  /\ Len(c.global.conditions) = 0

\* if len(newMatches) > 0 { ... }: hand the block's matches over.
handOver(c, e, newMatches) ==
  IF listOptionExit(c)
  THEN returnFrom([e EXCEPT !.outResult =
                     NewResult(c.target, <<ZeroMatch>>, <<>>, FALSE, FALSE)],
                  "nil", "listOption")
  ELSE
    LET e1 == [e EXCEPT !.lastMatch = newMatches[Len(newMatches)]]
        matches == e.matches \o newMatches
        flush == Len(matches) > c.global.streamingThreshold /\ c.global.streamingAllowed
        e2 == IF e.resultStreaming
              THEN [e1 EXCEPT !.outBatch = newMatches]
              ELSE IF flush
              THEN [e1 EXCEPT !.matches = matches, !.resultStreaming = TRUE,
                              !.outResult = NewResult(c.target, matches, <<>>, TRUE,
                                                      e.resultIsBinary)]
              ELSE [e1 EXCEPT !.matches = matches]
        e3 == [e2 EXCEPT !.matchCount = @ + Len(newMatches)]
    IN IF c.options.Limit # 0 /\ e3.matchCount >= c.options.Limit
       THEN afterLoop(c, e3)
       ELSE endOfIteration(c, e3)

\* testDataPtr: the bytes the regexes run on (lower-cased with
\* options.IgnoreCase).
testData(o, e) ==
  IF o.IgnoreCase
  THEN Slice(bytesToLower(e.data, e.lastInputBlockSize), 0, e.lastInputBlockSize)
  ELSE Slice(e.data, 0, e.lastInputBlockSize)

\* "sort matches and filter duplicates"
sortAndFilter(o, newMatches, lastMatch) ==
  IF Len(newMatches) > 0
  THEN filterDuplicates(o, Sort(newMatches), lastMatch, <<>>)
  ELSE newMatches

\* if len(conditionMatches) > 0 { sort.Sort(Matches(conditionMatches)) }
sortConditionMatches(conditionMatches) ==
  IF Len(conditionMatches) > 0 THEN Sort(conditionMatches) ELSE conditionMatches

\* The call of countLines, made when a consumer needs line numbers.
countLinesIfNeeded(c, e, lastConditionMatch, newMatches, conditionMatches) ==
  IF \/ c.options.ShowLineNumbers \/ c.options.ContextBefore > 0
     \/ c.options.ContextAfter > 0 \/ Len(c.global.conditions) > 0
  THEN countLines(e.data, lastConditionMatch, newMatches, conditionMatches,
                  e.offset, e.validMatchRange, e.linecount)
  ELSE [lineCount |-> e.linecount, matches |-> newMatches,
        conditionMatches |-> conditionMatches]

\* The locals after countLines: cl is what it returned, candidates the
\* number of primary candidates of the block.
withCounted(e, cl, candidates) ==
  [e EXCEPT !.conditionMatches = cl.conditionMatches, !.linecount = cl.lineCount,
            !.candidates = candidates]

\* "if len(newMatches) > 0 { ... }" and the end of the iteration.
finishBlock(c, e, cl, candidates) ==
  IF Len(cl.matches) > 0
  THEN handOver(c, withCounted(e, cl, candidates), cl.matches)
  ELSE endOfIteration(c, withCounted(e, cl, candidates))

\* The iteration once the candidates of the primary patterns (found) and
\* the condition matches (cms) are gathered.
filterAndCount(c, e, lastConditionMatch, found, cms) ==
  finishBlock(c, e,
              countLinesIfNeeded(c, e, lastConditionMatch,
                                 sortAndFilter(c.options, found, e.lastMatch),
                                 sortConditionMatches(cms)),
              Len(found))

\* The iteration once testDataPtr is set.
scanBlock(c, e, lastConditionMatch, testDataPtr) ==
  filterAndCount(c, e, lastConditionMatch,
                 gatherMatches(c, e, testDataPtr, c.matchRegexes, 1, <<>>),
                 gatherConditionMatches(c, e, testDataPtr, 1, e.conditionMatches))

\* The part of an iteration from "var testDataPtr []byte" on.
processBlock(c, e, lastConditionMatch) ==
  scanBlock(c, e, lastConditionMatch, testData(c.options, e))

\* Position of the last newline in data[0:validMatchRange], or -1.
lastNewline(data, validMatchRange) ==
  LET ps == {pos \in 0..(validMatchRange - 1) : At(data, pos) = NL}
  IN IF ps = {} THEN -1 ELSE CHOOSE pos \in ps : \A q \in ps : q <= pos

\* A binary check that looks at every block, whatever its offset.
binaryCheckEveryBlock(e, data, length) ==
  \E i \in 0..(Min(BinaryCheckLen, length) - 1) : At(data, i) = NUL

\* The check "if file is binary": at offset 0, a NUL byte among the first
\* min(256, length) bytes of the buffer.
binaryCheck(e, data, length) ==
  /\ e.offset = 0
  /\ \E i \in 0..(Min(BinaryCheckLen, length) - 1) : At(data, i) = NUL

\* One iteration of the loop of processReader, for a Read that returned n
\* bytes (eof: it returned io.EOF).  c is the context of the call: the
\* options, global, the compiled regexes, InputBlockSize, the target and its
\* bytes.
processReaderIter(c, e, n, eof) ==
  LET o == c.options
      W == InputMultilineWindow
      lastConditionMatch == Len(e.conditionMatches) - 1
      window == o.Multiline /\ e.lastRoundMultilineWindow
      dataW == IF window
               THEN copy(e.data, e.bufferOffset, e.bufferOffset + W,
                         e.lastInputBlockSize - W, e.lastInputBlockSize)
               ELSE e.data
      readAt == IF window THEN e.bufferOffset + W ELSE e.bufferOffset
      data == ReadInto(dataW, readAt, Slice(c.input, e.rpos, e.rpos + n))
      length == n + readAt
      windowNow == o.Multiline /\ ~eof /\ length > W
      validMatchRange == IF windowNow THEN length - W ELSE length
      binaryFound == binaryCheck(e, data, length)
      e1 == [e EXCEPT !.data = data, !.rpos = @ + n, !.isEOF = eof,
                      !.lastInputBlockSize = length,
                      !.lastRoundMultilineWindow = IF o.Multiline THEN windowNow ELSE @,
                      !.validMatchRange = validMatchRange,
                      !.lastValidMatchRange = validMatchRange,
                      !.resultIsBinary = @ \/ binaryFound,
                      !.lastSeekAmount = 0,
                      !.outResult = NoResult, !.outBatch = <<>>, !.candidates = 0]
      pos == lastNewline(data, validMatchRange)
  IN IF binaryFound /\ o.BinarySkip THEN returnFrom(e1, "nil", "binarySkip")
     ELSE IF eof THEN processBlock(c, e1, lastConditionMatch)
     ELSE IF pos >= 0
     THEN processBlock(c, [e1 EXCEPT !.lastSeekAmount = validMatchRange - 1 - pos,
                                     !.validMatchRange = pos + 1,
                                     !.bufferOffset = 0],
                       lastConditionMatch)
     ELSE IF length = c.InputBlockSize THEN returnFrom(e1, "errLineTooLong", "lineTooLong")
     ELSE [e1 EXCEPT !.bufferOffset = validMatchRange]

\* The Read failed with an error other than io.EOF: "return err".
processReaderReadError(e) ==
  returnFrom([e EXCEPT !.outResult = NoResult, !.outBatch = <<>>], "readError", "readError")

\* Sizes a Read into a slice of room bytes may return while remaining bytes
\* of the target are unread (a file fills the slice, a pipe may not).
ReadSizes(room, remaining) == 1..Min(room, remaining)

\* The slice the next Read gets: data[bufferOffset:], or
\* data[bufferOffset+InputMultilineWindow:] after a windowed block.
readRoom(c, e) ==
  c.InputBlockSize - e.bufferOffset
    - (IF c.options.Multiline /\ e.lastRoundMultilineWindow
       THEN InputMultilineWindow ELSE 0)


\* What one call of processReader has sent: the Results on global.resultsChan,
\* the batches on matchChan, the matches accumulated in its variable matches,
\* and the return statement it took ("" while it runs).
EmptyLog == [results |-> <<>>, batches |-> <<>>, accumulated |-> <<>>, how |-> ""]

\* The log after an iteration that left the engine in state e.
logIteration(log, e) ==
  [results |-> IF e.outResult # NoResult THEN Append(log.results, e.outResult)
               ELSE log.results,
   batches |-> IF e.outBatch # <<>> THEN Append(log.batches, e.outBatch)
               ELSE log.batches,
   accumulated |-> e.matches,
   how |-> IF e.pc = "returned" THEN e.how ELSE ""]

RECURSIVE processReader(_, _, _, _)
\* processReader run to its return on a reader whose Reads return the sizes
\* given (-1: the Read fails) and then, once the sizes are used up, fill the
\* slice until io.EOF.
processReader(c, e, reads, log) ==
  IF e.pc = "returned" THEN log
  ELSE LET remaining == Len(c.input) - e.rpos
           n == IF reads # <<>> THEN Head(reads) ELSE Min(readRoom(c, e), remaining)
           e2 == IF n = -1 THEN processReaderReadError(e)
                 ELSE processReaderIter(c, e, n, n = 0)
       IN processReader(c, e2, IF reads = <<>> THEN reads ELSE Tail(reads),
                        logIteration(log, e2))

RECURSIVE flatten(_)
flatten(seqs) == IF seqs = <<>> THEN <<>> ELSE Head(seqs) \o flatten(Tail(seqs))

RECURSIVE resultMatches(_)
resultMatches(results) ==
  IF results = <<>> THEN <<>> ELSE Head(results).matches \o resultMatches(Tail(results))

\* The primary matches a target emits: the matches of its Result followed by
\* all streamed batches.
emittedMatches(log) == resultMatches(log.results) \o flatten(log.batches)

\* The whole target read in one block: InputBlockSize above the target's size
\* and a reader that fills the slice.
readInOneBlock(c) ==
  LET big == [c EXCEPT !.InputBlockSize = Len(c.input) + 1]
  IN processReader(big, processReaderInit(makeBuffer(big.InputBlockSize)), <<>>, EmptyLog)


\* ---------------------------------------------------------- applyConditions
\* A LineMatches test that also accepts the lines after lineRangeStart.
fulfilledForFileFromLine(condition, conditionMatch) ==
  CASE condition.conditionType = "ConditionFileMatches" -> TRUE
    [] condition.conditionType = "ConditionLineMatches" ->
         conditionMatch.lineno >= condition.lineRangeStart
    [] condition.conditionType = "ConditionRangeMatches" ->
         /\ conditionMatch.lineno >= condition.lineRangeStart
         /\ conditionMatch.lineno <= condition.lineRangeEnd
    [] OTHER -> ~condition.negated

\* The switch of the first loop ("conditions that are independent of found
\* matches"): conditionFulfilled for one condition match.
fulfilledForFile(condition, conditionMatch) ==
  CASE condition.conditionType = "ConditionFileMatches" -> TRUE
    [] condition.conditionType = "ConditionLineMatches" ->
         conditionMatch.lineno = condition.lineRangeStart
    [] condition.conditionType = "ConditionRangeMatches" ->
         /\ conditionMatch.lineno >= condition.lineRangeStart
         /\ conditionMatch.lineno <= condition.lineRangeEnd
    [] OTHER -> ~condition.negated

\* maxAllowedDistance == -1 || actualDistance <= maxAllowedDistance, for a
\* distance other than 0.
withinDistance(actualDistance, maxAllowedDistance) ==
  actualDistance >= 0 /\ (maxAllowedDistance = -1 \/ actualDistance <= maxAllowedDistance)

\* A ConditionPreceded / ConditionFollowed test that accepts a condition
\* match at the start offset of the match itself.
fulfilledForMatchSameStart(condition, conditionMatch, match) ==
  CASE condition.conditionType = "ConditionPreceded" ->
         IF match.lineno - conditionMatch.lineno = 0
         THEN conditionMatch.start <= match.start
         ELSE withinDistance(match.lineno - conditionMatch.lineno, condition.within)
    [] condition.conditionType = "ConditionFollowed" ->
         IF conditionMatch.lineno - match.lineno = 0
         THEN conditionMatch.start >= match.start
         ELSE withinDistance(conditionMatch.lineno - match.lineno, condition.within)
    [] condition.conditionType = "ConditionSurrounded" ->
         IF match.lineno = conditionMatch.lineno THEN TRUE
         ELSE withinDistance(IF match.lineno > conditionMatch.lineno
                             THEN match.lineno - conditionMatch.lineno
                             ELSE conditionMatch.lineno - match.lineno, condition.within)
    [] OTHER -> ~condition.negated

\* A ConditionSurrounded test that only measures the distance to condition
\* matches before the match.
fulfilledForMatchBeforeOnly(condition, conditionMatch, match) ==
  CASE condition.conditionType = "ConditionPreceded" ->
         IF match.lineno - conditionMatch.lineno = 0
         THEN conditionMatch.start < match.start
         ELSE withinDistance(match.lineno - conditionMatch.lineno, condition.within)
    [] condition.conditionType = "ConditionFollowed" ->
         IF conditionMatch.lineno - match.lineno = 0
         THEN conditionMatch.start > match.start
         ELSE withinDistance(conditionMatch.lineno - match.lineno, condition.within)
    [] condition.conditionType = "ConditionSurrounded" ->
         IF match.lineno = conditionMatch.lineno THEN TRUE
         ELSE withinDistance(match.lineno - conditionMatch.lineno, condition.within)
    [] OTHER -> ~condition.negated

\* The switch of the MatchLoop: conditionFulfilled for one condition match
\* and one match.
fulfilledForMatch(condition, conditionMatch, match) ==
  CASE condition.conditionType = "ConditionPreceded" ->
         IF match.lineno - conditionMatch.lineno = 0
         THEN conditionMatch.start < match.start
         ELSE withinDistance(match.lineno - conditionMatch.lineno, condition.within)
    [] condition.conditionType = "ConditionFollowed" ->
         IF conditionMatch.lineno - match.lineno = 0
         THEN conditionMatch.start > match.start
         ELSE withinDistance(conditionMatch.lineno - match.lineno, condition.within)
    [] condition.conditionType = "ConditionSurrounded" ->
         IF match.lineno = conditionMatch.lineno THEN TRUE
         ELSE withinDistance(IF match.lineno > conditionMatch.lineno
                             THEN match.lineno - conditionMatch.lineno
                             ELSE conditionMatch.lineno - match.lineno, condition.within)
    [] OTHER -> ~condition.negated

\* "if conditionStatus[i] != true && !global.conditions[i].negated"
unfulfilled(conditions, conditionStatus) ==
  \E i \in 1..Len(conditions) : ~conditionStatus[i] /\ ~conditions[i].negated

\* make([]bool, len(global.conditions))
noStatus(conditions) == [i \in 1..Len(conditions) |-> FALSE]

RECURSIVE fileConditionsFail(_, _, _, _)
\* The first loop over result.conditionMatches and the loop over
\* conditionStatus after it: TRUE when they end in "result.matches = Matches{}".
fileConditionsFail(conditions, conditionMatches, k, conditionStatus) ==
  IF k > Len(conditionMatches) THEN unfulfilled(conditions, conditionStatus)
  ELSE IF fulfilledForFile(conditions[conditionMatches[k].conditionID + 1], conditionMatches[k])
  THEN IF conditions[conditionMatches[k].conditionID + 1].negated THEN TRUE
       ELSE fileConditionsFail(conditions, conditionMatches, k + 1,
              [conditionStatus EXCEPT ![conditionMatches[k].conditionID + 1] = TRUE])
  ELSE fileConditionsFail(conditions, conditionMatches, k + 1, conditionStatus)

RECURSIVE matchFailsIgnoringNegated(_, _, _, _, _)
\* A loop over the condition matches that does not look at negated.
matchFailsIgnoringNegated(conditions, conditionMatches, match, k, conditionStatus) ==
  IF k > Len(conditionMatches) THEN unfulfilled(conditions, conditionStatus)
  ELSE IF fulfilledForMatch(conditions[conditionMatches[k].conditionID + 1],
                            conditionMatches[k], match)
  THEN matchFailsIgnoringNegated(conditions, conditionMatches, match, k + 1,
         [conditionStatus EXCEPT ![conditionMatches[k].conditionID + 1] = TRUE])
  ELSE matchFailsIgnoringNegated(conditions, conditionMatches, match, k + 1, conditionStatus)

RECURSIVE matchFails(_, _, _, _, _)
\* The loop over result.conditionMatches for one match and the loop over
\* conditionStatus after it: TRUE when they end in "goto ConditionFailed".
matchFails(conditions, conditionMatches, match, k, conditionStatus) ==
  IF k > Len(conditionMatches) THEN unfulfilled(conditions, conditionStatus)
  ELSE IF fulfilledForMatch(conditions[conditionMatches[k].conditionID + 1],
                            conditionMatches[k], match)
  THEN IF conditions[conditionMatches[k].conditionID + 1].negated THEN TRUE
       ELSE matchFails(conditions, conditionMatches, match, k + 1,
              [conditionStatus EXCEPT ![conditionMatches[k].conditionID + 1] = TRUE])
  ELSE matchFails(conditions, conditionMatches, match, k + 1, conditionStatus)

\* A removal that moves the last match into the gap.
removeAtSwap(matches, matchIndex) ==
  SubSeq([matches EXCEPT ![matchIndex] = matches[Len(matches)]], 1, Len(matches) - 1)

\* ConditionFailed: copy(result.matches[matchIndex:], result.matches[matchIndex+1:])
\* and result.matches[0 : len(result.matches)-1].
removeAt(matches, matchIndex) ==
  SubSeq([i \in 1..Len(matches) |->
            IF i >= matchIndex /\ i < Len(matches) THEN matches[i + 1] ELSE matches[i]],
         1, Len(matches) - 1)

RECURSIVE MatchLoopSkipping(_, _, _, _)
\* A MatchLoop that moves on to the next index after a removal as well.
MatchLoopSkipping(conditions, conditionMatches, matches, matchIndex) ==
  IF matchIndex > Len(matches) THEN matches
  ELSE IF matchFails(conditions, conditionMatches, matches[matchIndex], 1, noStatus(conditions))
  THEN MatchLoopSkipping(conditions, conditionMatches, removeAt(matches, matchIndex), matchIndex + 1)
  ELSE MatchLoopSkipping(conditions, conditionMatches, matches, matchIndex + 1)

RECURSIVE MatchLoop(_, _, _, _)
\* MatchLoop: "for matchIndex := 0; matchIndex < len(result.matches); { ... }"
MatchLoop(conditions, conditionMatches, matches, matchIndex) ==
  IF matchIndex > Len(matches) THEN matches
  ELSE IF matchFails(conditions, conditionMatches, matches[matchIndex], 1, noStatus(conditions))
  THEN MatchLoop(conditions, conditionMatches, removeAt(matches, matchIndex), matchIndex)
  ELSE MatchLoop(conditions, conditionMatches, matches, matchIndex + 1)

\* func (result *Result) applyConditions()
applyConditions(conditions, r) ==
  IF Len(r.matches) = 0 \/ Len(conditions) = 0 THEN r
  ELSE IF fileConditionsFail(conditions, r.conditionMatches, 1, noStatus(conditions))
  THEN [r EXCEPT !.matches = <<>>]
  ELSE [r EXCEPT !.matches = MatchLoop(conditions, r.conditionMatches, r.matches, 1)]

\* =========================================================== state
VARIABLES
  options,          \* the Options record the engine and the printer read
  global,           \* global.conditions, streamingAllowed, streamingThreshold, matchPatterns
  InputBlockSize,   \* var InputBlockSize (option --blocksize)
  fs,               \* the bytes of every target
  eng,              \* engine specification: the locals of the one processReader call
  sent,             \* engine specification: what that call has sent so far
  reads,            \* engine specification: the sizes its Reads returned
  targets,          \* pipeline: the targets given to executeSearch
  env,              \* pipeline: what the operating system does for each target
  main,             \* pipeline: executeSearch's position
  filesChan,        \* pipeline: global.filesChan
  resultsChan,      \* pipeline: global.resultsChan
  matchChan,        \* pipeline: the matchChan of each target's streaming Result
  procs,            \* pipeline: the worker goroutines and their processReader locals
  handler,          \* pipeline: resultHandler's position in its loop and in printResult
  targetsWaitGroup, \* pipeline: global.targetsWaitGroup
  out,              \* pipeline: the output, global.total* and the process's end
  log,              \* pipeline: what processReader did for each target
  handlerResult,    \* conditions: the Result resultHandler holds (result)
  received,         \* conditions: that Result as it came from global.resultsChan
  applyCount,       \* conditions: the calls of result.applyConditions() so far
  ignoreFile,       \* gitignore: the lines of the .gitignore file
  gi,               \* gitignore: the gitIgnore instance loadIgnoreFile fills
  scanned,          \* gitignore: the lines the scanner has returned so far
  verdict,          \* gitignore: the entry checked and what gi.check returned
  gitFiles,         \* cache: the .gitignore files on disk
  directoryChan,    \* cache: global.directoryChan
  cache,            \* cache: GitIgnoreCache.cache
  mu,               \* cache: GitIgnoreCache.mu
  heap,             \* cache: the gitIgnore instances allocated so far
  callers,          \* cache: the directory workers and their LoadBasePath locals
  stores,           \* cache: the assignments to the cache in order
  workChan,         \* counting: global.filesChan
  workers,          \* counting: the processFileTargets goroutines
  lineLengthErrors, \* counting: global.totalLineLengthErrors
  tooLong,          \* counting: the targets whose processReader returned errLineTooLong
  reported,         \* counting: the count in the message at shutdown (-1: none yet)
  inv,              \* inverted path: the locals of the one processReaderInvertMatch call
  invSent,          \* inverted path: the Results that call has sent
  sorting           \* sorting: the candidates of one block on their way through the sort

engineVars == <<eng, sent, reads>>

pipeVars == <<targets, env, main, filesChan, resultsChan, matchChan, procs, handler,
              targetsWaitGroup, out, log>>

condVars == <<handlerResult, received, applyCount>>

\* The variables of the specifications other than the engine's and the
\* pipeline's.
ignoreVars == <<ignoreFile, gi, scanned, verdict>>

cacheVars == <<gitFiles, directoryChan, cache, mu, heap, callers, stores>>

countVars == <<workChan, workers, lineLengthErrors, tooLong, reported>>

invertVars == <<inv, invSent>>

otherVars == <<condVars, ignoreVars, cacheVars, countVars, invertVars, sorting>>

vars == <<options, global, InputBlockSize, fs, eng, sent, reads, targets, env, main,
          filesChan, resultsChan, matchChan, procs, handler, targetsWaitGroup, out, log,
          handlerResult, received, applyCount, ignoreFile, gi, scanned, verdict,
          gitFiles, directoryChan, cache, mu, heap, callers, stores,
          workChan, workers, lineLengthErrors, tooLong, reported, inv, invSent, sorting>>

\* The context of a processReader call on target.
Context(target) ==
  [options |-> options, global |-> global, matchRegexes |-> global.matchPatterns,
   InputBlockSize |-> InputBlockSize, target |-> target, input |-> fs[target]]

\* Options as LoadDefaults leaves them, for the fields the model reads.
DefaultOptions ==
  [Multiline |-> FALSE, IgnoreCase |-> FALSE, BinarySkip |-> FALSE,
   BinaryAsText |-> FALSE, Limit |-> 0, ShowLineNumbers |-> FALSE,
   ContextBefore |-> 0, ContextAfter |-> 0, FilesWithMatches |-> FALSE,
   FilesWithoutMatch |-> FALSE, Count |-> FALSE, InvertMatch |-> FALSE,
   TargetsOnly |-> FALSE, Preceded |-> <<>>, Replace |-> "",
   ErrShowLineLength |-> FALSE, ErrSkipLineLength |-> FALSE]

\* A condition as processConditions builds it.
NewCondition(o, pattern, conditionType, within, negated) ==
  [regex |-> preparePattern(o, pattern), conditionType |-> conditionType,
   within |-> within, lineRangeStart |-> 0, lineRangeEnd |-> 0, negated |-> negated]

\* Options.processConditions over the --preceded-by options.
processConditions(o) ==
  [i \in 1..Len(o.Preceded) |->
     NewCondition(o, o.Preceded[i], "ConditionPreceded", -1, FALSE)]

\* An Options.Apply whose performAutoDetections allows streaming also with
\* conditions.
ApplyOptionsStreamingAlways(o, patterns, conditions, singleStreamTarget) ==
  [conditions |-> conditions,
   streamingAllowed |-> TRUE,
   streamingThreshold |-> IF singleStreamTarget THEN 0 ELSE StreamingThreshold,
   matchPatterns |-> [i \in 1..Len(patterns) |-> preparePattern(o, patterns[i])]]

\* Options.Apply: the prepared patterns and what performAutoDetections
\* decides about streaming (a single target that is a regular file, stdin or
\* a network target streams from the first match on).
ApplyOptions(o, patterns, conditions, singleStreamTarget) ==
  [conditions |-> conditions,
   streamingAllowed |-> (Len(conditions) = 0),
   streamingThreshold |-> IF Len(conditions) = 0 /\ singleStreamTarget
                         THEN 0 ELSE StreamingThreshold,
   matchPatterns |-> [i \in 1..Len(patterns) |-> preparePattern(o, patterns[i])]]

\* ============================================ engine specification
\* One processReader call on one target, for every input up to MaxLen bytes,
\* every pattern list of PatternSets, both modes, and every way the reader may
\* cut the input into Reads.
EngineBytes == {"a", "b", NL}
\* The inputs with a NUL byte: any bytes of a, newline and NUL.
BinaryInputs ==
  {input \in UNION {[1..n -> {"a", NL, NUL}] : n \in 1..MaxLen} :
     \E i \in 1..Len(input) : input[i] = NUL}
Inputs == UNION {[1..n -> EngineBytes] : n \in 0..MaxLen} \cup BinaryInputs
PatternSets == {<<PatA>>, <<PatBol>>, <<PatNotBA>>, <<PatANLPlus>>, <<PatBol, PatA>>}

\* The --blocksize values of the engine specification: every size above the
\* multiline window up to BlockSize.
BlockSizes == (InputMultilineWindow + 1)..BlockSize

\* The conditions specification's variables where applyConditions is not run.
CondUnused ==
  handlerResult = <<>> /\ received = <<>> /\ applyCount = 0

\* The gitignore specification's variables where no .gitignore file is loaded.
IgnoreUnused ==
  ignoreFile = <<>> /\ gi = <<>> /\ scanned = 0 /\ verdict = <<>>

\* The cache specification's variables where no directory is walked.
CacheUnused ==
  /\ gitFiles = <<>> /\ directoryChan = <<>> /\ cache = <<>> /\ mu = <<>> /\ heap = <<>>
  /\ callers = <<>> /\ stores = <<>>

\* The counting specification's variables where no worker counts.
CountUnused ==
  /\ workChan = <<>> /\ workers = <<>> /\ lineLengthErrors = 0 /\ tooLong = 0
  /\ reported = -1

\* The inverted path's variables where processReaderInvertMatch is not run.
InvertUnused == inv = <<>> /\ invSent = <<>>

\* The sorting specification's variable where no block is sorted.
SortUnused == sorting = <<>>

\* The variables of the other specifications, unused.
OthersUnused ==
  CondUnused /\ IgnoreUnused /\ CacheUnused /\ CountUnused /\ InvertUnused /\ SortUnused

\* The pipeline's variables in the engine specification, which has no pipeline.
PipeUnused ==
  /\ targets = <<>> /\ env = <<>> /\ main = <<>> /\ filesChan = <<>>
  /\ resultsChan = <<>> /\ matchChan = <<>> /\ procs = <<>> /\ handler = <<>>
  /\ targetsWaitGroup = 0 /\ out = <<>> /\ log = <<>>

InitEngine ==
  /\ \E ml \in BOOLEAN, withConditions \in BOOLEAN, pats \in PatternSets :
       /\ withConditions => pats \in {<<PatA>>, <<PatBol, PatA>>}
       /\ LET o == [DefaultOptions EXCEPT !.Multiline = ml, !.ShowLineNumbers = TRUE]
              conds == IF withConditions
                       THEN <<NewCondition(o, PatB, "ConditionPreceded", -1, FALSE)>>
                       ELSE <<>>
          IN /\ options = o
             /\ global = ApplyOptions(o, pats, conds, TRUE)
  /\ InputBlockSize \in BlockSizes
  /\ \E input \in Inputs : fs = [t \in {"f"} |-> input]
  /\ eng = processReaderInit(makeBuffer(InputBlockSize))
  /\ sent = EmptyLog
  /\ reads = <<>>
  /\ PipeUnused
  /\ OthersUnused

\* reader.Read returns n > 0 bytes and processReader runs one iteration.
EngineRead ==
  /\ eng.pc = "loop"
  /\ \E n \in ReadSizes(readRoom(Context("f"), eng), Len(fs["f"]) - eng.rpos) :
       /\ eng' = processReaderIter(Context("f"), eng, n, FALSE)
       /\ reads' = Append(reads, n)
  /\ sent' = logIteration(sent, eng')
  /\ UNCHANGED <<options, global, InputBlockSize, fs, pipeVars, otherVars>>

\* reader.Read returns io.EOF and processReader runs its last iteration.
EngineEOF ==
  /\ eng.pc = "loop"
  /\ Len(fs["f"]) = eng.rpos
  /\ eng' = processReaderIter(Context("f"), eng, 0, TRUE)
  /\ sent' = logIteration(sent, eng')
  /\ UNCHANGED <<options, global, InputBlockSize, fs, reads, pipeVars, otherVars>>

NextEngine == EngineRead \/ EngineEOF

SpecEngine == InitEngine /\ [][NextEngine]_vars


\* ============================================ pipeline specification
\* executeSearch on a list of targets: the main goroutine, options.Cores
\* processFileTargets workers, the processNetworkTarget goroutine of a network
\* target and the resultHandler, joined by global.filesChan,
\* global.resultsChan, global.resultsDoneChan, the matchChan of every
\* streaming Result and global.targetsWaitGroup.  Targets are regular files,
\* STDIN and network targets (no directories); options.InvertMatch and
\* options.Zip are off, and global.conditions is empty or holds one
\* --preceded-by condition.

\* options.Cores: the number of processFileTargets workers.
Cores == 1

FileWorkerNames == <<"w1", "w2", "w3">>
FileWorkers == {FileWorkerNames[i] : i \in 1..Cores}
NetWorker == "net"
ProcIds == FileWorkers \cup {NetWorker}

Stdin == "-"
NetTarget == "tcp://h:1"
TargetNames == {"m", "z", "s", "l", "n", "r", "x", "gone", Stdin, NetTarget}

\* global.netTcpRegex.MatchString(target)
isNetTarget(t) == t = NetTarget

RECURSIVE Lines(_)
\* k lines "a\n".
Lines(k) == IF k = 0 THEN <<>> ELSE <<"a", NL>> \o Lines(k - 1)

\* The bytes of the targets: m has a match on each of its 8 lines, z is m
\* behind a first line with a NUL byte, s is two matching lines followed by
\* a line of InputBlockSize bytes, l is a single line of InputBlockSize
\* bytes, n has no match, r is m on a device whose Read fails, x cannot be
\* opened and gone does not exist.
Contents(t) ==
  CASE t = "m" -> Lines(8)
    [] t = "z" -> <<"a", NUL, NL>> \o Lines(8)
    [] t = "s" -> Lines(2) \o [i \in 1..BlockSize |-> "a"]
    [] t = "l" -> [i \in 1..BlockSize |-> "a"]
    [] t = "n" -> <<"b", NL>>
    [] t = "r" -> Lines(8)
    [] t \in {Stdin, NetTarget} -> Lines(1)
    [] OTHER -> <<>>

\* What the operating system does for a target: os.Stat and os.Open
\* succeed or fail, net.Listen and Accept succeed or fail, and the
\* readErrAt-th Read of the target fails (0: none does).
DefaultEnv ==
  [t \in TargetNames |->
     [exists |-> t # "gone", openable |-> t # "x", listenOk |-> TRUE,
      acceptOk |-> TRUE, readErrAt |-> 0]]

TargetLists ==
  {<<"m">>, <<"z">>, <<"s">>, <<"l">>, <<"n">>, <<"r">>, <<"x">>, <<Stdin>>,
   <<NetTarget>>, <<"x", "m">>, <<"l", "n">>, <<"r", "n">>, <<"z", "n">>,
   <<"m", "n">>, <<"m", Stdin>>, <<NetTarget, "n">>, <<"n", "gone">>}

\* --err-skip-line-length and --err-show-line-length, alone and together,
\* and the target lists searched with them.
LineLengthOptions == [skip : BOOLEAN, show : BOOLEAN]

LineLengthTargetLists == {<<"l">>, <<"s">>, <<"l", "n">>}

\* The target lists searched with a --preceded-by condition.
ConditionTargetLists == {<<"m">>, <<"m", "n">>, <<Stdin>>}

LimitValues == {0, 1, 5}

\* The option combinations of the pipeline specification, over the options
\* the pipeline reads; --targets comes without the others.
PipeOptions ==
  {o \in [FilesWithMatches : BOOLEAN, FilesWithoutMatch : BOOLEAN, Count : BOOLEAN,
          Limit : LimitValues, BinarySkip : BOOLEAN, BinaryAsText : BOOLEAN,
          TargetsOnly : BOOLEAN] :
     /\ o.TargetsOnly =>
          /\ ~o.FilesWithMatches /\ ~o.FilesWithoutMatch /\ ~o.Count
          /\ o.Limit = 0 /\ ~o.BinarySkip /\ ~o.BinaryAsText}

withOptions(o) ==
  [DefaultOptions EXCEPT !.FilesWithMatches = o.FilesWithMatches,
                         !.FilesWithoutMatch = o.FilesWithoutMatch,
                         !.Count = o.Count, !.Limit = o.Limit,
                         !.BinarySkip = o.BinarySkip,
                         !.BinaryAsText = o.BinaryAsText,
                         !.TargetsOnly = o.TargetsOnly]

\* Options.checkCompatibility over the options of the model, its tests in the
\* order of the source: the error, or "" when the options go together.
checkCompatibility(o, ts) ==
  LET stdinTargetFound == \E i \in 1..Len(ts) : ts[i] = Stdin
      netTargetFound == \E i \in 1..Len(ts) : isNetTarget(ts[i])
  IN IF o.InvertMatch /\ o.Multiline
     THEN "options 'multiline' and 'invert' cannot be used together"
     ELSE IF netTargetFound /\ o.InvertMatch
     THEN "option 'invert' is not supported for network targets"
     ELSE IF (stdinTargetFound \/ netTargetFound)
               /\ (o.ContextBefore > 0 \/ o.ContextAfter > 0)
     THEN "context options are not supported when reading from STDIN or network"
     ELSE IF (stdinTargetFound \/ netTargetFound) /\ o.TargetsOnly
     THEN "targets option not supported when reading from STDIN or network"
     ELSE IF (o.ContextBefore # 0 \/ o.ContextAfter # 0)
               /\ (o.Count \/ o.FilesWithMatches \/ o.FilesWithoutMatch)
     THEN "context options cannot be combined with count or list option"
     ELSE IF o.FilesWithMatches /\ o.FilesWithoutMatch
     THEN "illegal combination of list option"
     ELSE IF o.BinarySkip /\ o.BinaryAsText
     THEN "options 'binary-skip' and 'binary-text' cannot be used together"
     ELSE IF o.ErrSkipLineLength /\ o.ErrShowLineLength
     THEN "options 'err-skip-line-length' and 'err-show-line-length' cannot be used together"
     ELSE ""

\* global as main has it before Options.Apply: the patterns as given and
\* streamingThreshold as initialized.
GlobalAtStart(patterns) ==
  [conditions |-> <<>>, streamingAllowed |-> FALSE,
   streamingThreshold |-> StreamingThreshold, matchPatterns |-> patterns]

\* performAutoDetections: a single target that is STDIN, a network target or
\* an existing regular file.
singleStreamTarget(ts, en) ==
  /\ Len(ts) = 1
  /\ ts[1] = Stdin \/ isNetTarget(ts[1]) \/ en[ts[1]].exists

\* A channel of the pipeline.
NewChan == [buf |-> <<>>, closed |-> FALSE]

\* The matchChan of a target's streaming Result: made when the Result is
\* built; closes counts the close(matchChan) calls.
NoMatchChan == [made |-> FALSE, buf |-> <<>>, closed |-> FALSE, closes |-> 0]

\* What processReader did for a target: the Results and batches it has sent
\* on the channels, the matches it holds in its variable matches, the
\* sizes its Reads returned (-1: an error, 0: io.EOF), the buffer it started
\* with and the return it took.
NoTargetLog ==
  [results |-> <<>>, batches |-> <<>>, accumulated |-> <<>>, how |-> "",
   reads |-> <<>>, data0 |-> <<>>, opened |-> 0]

\* global.total* counters, the lines written to the output in order, the
\* errors logged, the status executeSearch returns and the cause once
\* errorLogger.Fatalf has ended the process.
NoOutput ==
  [printed |-> <<>>, totalTargetCount |-> 0, totalMatchCount |-> 0,
   totalResultCount |-> 0, totalLineLengthErrors |-> 0, errors |-> {},
   fatal |-> "", ret |-> -1]

\* One line of output.
outLine(target, kind, n, m) == [target |-> target, kind |-> kind, n |-> n, m |-> m]

Running == out.fatal = ""

InitPipe ==
  /\ \E ts \in TargetLists, rerr \in {1, 3}, lok \in BOOLEAN, aok \in BOOLEAN,
        po \in PipeOptions, pat \in {PatA, PatOpenParen}, pre \in {<<>>, <<PatA>>},
        ll \in LineLengthOptions :
       /\ pat = PatOpenParen => withOptions(po) = DefaultOptions /\ pre = <<>>
       /\ (ll.skip \/ ll.show) =>
            /\ withOptions(po) = DefaultOptions /\ pat = PatA /\ pre = <<>>
            /\ ts \in LineLengthTargetLists
       /\ pre # <<>> => withOptions(po) = DefaultOptions /\ ts \in ConditionTargetLists
       /\ (\A i \in 1..Len(ts) : ts[i] # "r") => rerr = 1
       /\ (\A i \in 1..Len(ts) : ~isNetTarget(ts[i])) => (lok /\ aok)
       /\ ~lok => aok
       /\ targets = ts
       /\ env = [DefaultEnv EXCEPT !["r"].readErrAt = rerr,
                                   ![NetTarget].listenOk = lok,
                                   ![NetTarget].acceptOk = aok]
       /\ options = [withOptions(po) EXCEPT !.Preceded = pre,
                                            !.ErrSkipLineLength = ll.skip,
                                            !.ErrShowLineLength = ll.show]
       /\ global = GlobalAtStart(<<pat>>)
  /\ InputBlockSize = BlockSize
  /\ fs = [t \in TargetNames |-> Contents(t)]
  /\ main = [pc |-> "apply", i |-> 1]
  /\ filesChan = NewChan
  /\ resultsChan = NewChan
  /\ matchChan = [t \in TargetNames |-> NoMatchChan]
  /\ procs = [p \in ProcIds |->
                [pc |-> IF p \in FileWorkers THEN "recv" ELSE "unstarted",
                 target |-> "",
                 e |-> processReaderInit(makeBuffer(InputBlockSize))]]
  /\ handler = [pc |-> "recv", target |-> "", matchCount |-> 0]
  /\ targetsWaitGroup = Cores
  /\ out = NoOutput
  /\ log = [t \in TargetNames |-> NoTargetLog]
  /\ eng = processReaderInit(<<>>)
  /\ sent = EmptyLog
  /\ reads = <<>>
  /\ OthersUnused

\* --------------------------------------------------------------------- main
\* The status the process ends with: errorLogger.Fatalf is log.Logger.Fatalf,
\* which calls os.Exit(1); otherwise main calls os.Exit(retVal) with what
\* executeSearch returned. -1: the process has not ended.
exitStatus(ou) == IF ou.fatal # "" THEN 1 ELSE ou.ret

\* options.Apply(global.matchPatterns, targets): an error ends the process.
MainApply ==
  /\ Running
  /\ main.pc = "apply"
  /\ IF checkCompatibility(options, targets) # ""
     THEN /\ out' = [out EXCEPT !.fatal = "options"]
          /\ UNCHANGED <<global, main>>
     ELSE /\ global' = ApplyOptions(options, global.matchPatterns,
                                    processConditions(options),
                                    singleStreamTarget(targets, env))
          /\ main' = [main EXCEPT !.pc = "compile"]
          /\ UNCHANGED out
  /\ UNCHANGED <<options, InputBlockSize, fs, engineVars, otherVars, targets, env,
                 filesChan, resultsChan, matchChan, procs, handler, targetsWaitGroup, log>>

\* regexp.Compile for every pattern: an error ends the process; otherwise
\* main calls executeSearch.
MainCompile ==
  /\ Running
  /\ main.pc = "compile"
  /\ IF \E i \in 1..Len(global.matchPatterns) : ~compiles(global.matchPatterns[i])
     THEN /\ out' = [out EXCEPT !.fatal = "pattern"]
          /\ UNCHANGED main
     ELSE /\ main' = [main EXCEPT !.pc = "targets"]
          /\ UNCHANGED out
  /\ UNCHANGED <<options, global, InputBlockSize, fs, engineVars, otherVars, targets, env,
                 filesChan, resultsChan, matchChan, procs, handler, targetsWaitGroup, log>>

\* ------------------------------------------------------------ executeSearch
\* One round of "for _, target := range targets": STDIN and regular files go
\* to filesChan (the send waits for room), a network target gets its own
\* goroutine, and a target os.Stat fails on ends the process.
MainTarget ==
  /\ Running
  /\ main.pc = "targets" /\ main.i <= Len(targets)
  /\ LET t == targets[main.i]
     IN \/ /\ t = Stdin \/ (~isNetTarget(t) /\ env[t].exists)
           /\ Len(filesChan.buf) < FilesChanCap
           /\ filesChan' = [filesChan EXCEPT !.buf = Append(@, t)]
           /\ UNCHANGED <<targetsWaitGroup, procs, out>>
        \/ /\ isNetTarget(t)
           /\ targetsWaitGroup' = targetsWaitGroup + 1
           /\ procs' = [procs EXCEPT ![NetWorker].pc = "listen", ![NetWorker].target = t]
           /\ UNCHANGED <<filesChan, out>>
        \/ /\ t # Stdin /\ ~isNetTarget(t) /\ ~env[t].exists
           /\ out' = [out EXCEPT !.fatal = "stat"]
           /\ UNCHANGED <<filesChan, targetsWaitGroup, procs>>
  /\ main' = [main EXCEPT !.i = @ + 1]
  /\ UNCHANGED <<options, global, InputBlockSize, fs, engineVars, otherVars, targets, env,
                 resultsChan, matchChan, handler, log>>

\* global.recurseWaitGroup.Wait() (no directory is walked),
\* close(global.directoryChan), close(global.filesChan).
MainCloseFilesChan ==
  /\ Running
  /\ main.pc = "targets" /\ main.i > Len(targets)
  /\ filesChan' = [filesChan EXCEPT !.closed = TRUE]
  /\ main' = [main EXCEPT !.pc = "wait"]
  /\ UNCHANGED <<options, global, InputBlockSize, fs, engineVars, otherVars, targets, env,
                 resultsChan, matchChan, procs, handler, targetsWaitGroup, out, log>>

\* global.targetsWaitGroup.Wait() returns; close(global.resultsChan).
MainCloseResultsChan ==
  /\ Running
  /\ main.pc = "wait" /\ targetsWaitGroup = 0
  /\ resultsChan' = [resultsChan EXCEPT !.closed = TRUE]
  /\ main' = [main EXCEPT !.pc = "waitDone"]
  /\ UNCHANGED <<options, global, InputBlockSize, fs, engineVars, otherVars, targets, env,
                 filesChan, matchChan, procs, handler, targetsWaitGroup, out, log>>

\* <-global.resultsDoneChan meets the handler's send; executeSearch computes
\* its return value, logs the number of files skipped for their long lines
\* and returns.
MainReturn ==
  /\ Running
  /\ main.pc = "waitDone" /\ handler.pc = "signal"
  /\ handler' = [handler EXCEPT !.pc = "exited"]
  /\ main' = [main EXCEPT !.pc = "done"]
  /\ out' = [out EXCEPT
                !.ret = IF out.totalResultCount > 0 THEN 0 ELSE 1,
                !.errors = IF /\ ~options.ErrSkipLineLength /\ ~options.ErrShowLineLength
                              /\ out.totalLineLengthErrors > 0
                           THEN @ \cup {<<"", "files skipped due to very long lines">>}
                           ELSE @]
  /\ UNCHANGED <<options, global, InputBlockSize, fs, engineVars, otherVars, targets, env,
                 filesChan, resultsChan, matchChan, procs, targetsWaitGroup, log>>

\* -------------------------------------------------------- processFileTargets
\* os.Open failed: errorLogger.Printf("cannot open file ...") and continue.
openFailed(t) ==
  out' = [out EXCEPT !.errors = @ \cup {<<t, "cannot open file">>}]

\* "for filepath := range global.filesChan" receives a target: with
\* options.TargetsOnly the worker goes on to send Result{target}; a file
\* that cannot be opened is logged and skipped; otherwise processReader
\* starts on the worker's dataBuffer.
WorkerReceive(p) ==
  /\ Running
  /\ p \in FileWorkers /\ procs[p].pc = "recv"
  /\ filesChan.buf # <<>>
  /\ LET t == Head(filesChan.buf)
     IN /\ filesChan' = [filesChan EXCEPT !.buf = Tail(@)]
        /\ IF options.TargetsOnly
           THEN /\ procs' = [procs EXCEPT ![p].pc = "sendTarget", ![p].target = t]
                /\ UNCHANGED <<out, log>>
           ELSE IF t # Stdin /\ ~env[t].openable
           THEN openFailed(t) /\ UNCHANGED <<procs, log>>
           ELSE /\ procs' = [procs EXCEPT ![p].pc = "engine", ![p].target = t,
                                          ![p].e = processReaderInit(procs[p].e.data)]
                /\ log' = [log EXCEPT ![t].data0 = procs[p].e.data, ![t].opened = @ + 1]
                /\ UNCHANGED out
  /\ UNCHANGED <<options, global, InputBlockSize, fs, engineVars, otherVars, targets, env, main,
                 resultsChan, matchChan, handler, targetsWaitGroup>>

\* global.resultsChan <- &Result{target: filepath} (options.TargetsOnly).
WorkerSendTarget(p) ==
  /\ Running
  /\ procs[p].pc = "sendTarget"
  /\ Len(resultsChan.buf) < ResultsChanCap
  /\ resultsChan' = [resultsChan EXCEPT
                       !.buf = Append(@, NewResult(procs[p].target, <<>>, <<>>, FALSE, FALSE))]
  /\ procs' = [procs EXCEPT ![p].pc = "recv"]
  /\ UNCHANGED <<options, global, InputBlockSize, fs, engineVars, otherVars, targets, env, main,
                 filesChan, matchChan, handler, targetsWaitGroup, out, log>>

\* filesChan is closed and empty: the range loop ends and the deferred
\* global.targetsWaitGroup.Done() runs.
WorkerExit(p) ==
  /\ Running
  /\ p \in FileWorkers /\ procs[p].pc = "recv"
  /\ filesChan.buf = <<>> /\ filesChan.closed
  /\ procs' = [procs EXCEPT ![p].pc = "exited"]
  /\ targetsWaitGroup' = targetsWaitGroup - 1
  /\ UNCHANGED <<options, global, InputBlockSize, fs, engineVars, otherVars, targets, env, main,
                 filesChan, resultsChan, matchChan, handler, out, log>>

\* ------------------------------------------------------ processNetworkTarget
\* net.Listen: a failure ends the process (errorLogger.Fatalf).
NetListen(p) ==
  /\ Running
  /\ procs[p].pc = "listen"
  /\ IF env[procs[p].target].listenOk
     THEN procs' = [procs EXCEPT ![p].pc = "accept"] /\ UNCHANGED out
     ELSE out' = [out EXCEPT !.fatal = "listen"] /\ UNCHANGED procs
  /\ UNCHANGED <<options, global, InputBlockSize, fs, engineVars, otherVars, targets, env, main,
                 filesChan, resultsChan, matchChan, handler, targetsWaitGroup, log>>

\* listener.Accept: a failure ends the process (errorLogger.Fatalf);
\* otherwise processReader starts on a new dataBuffer.
NetAccept(p) ==
  /\ Running
  /\ procs[p].pc = "accept"
  /\ LET t == procs[p].target
     IN IF env[t].acceptOk
        THEN /\ procs' = [procs EXCEPT ![p].pc = "engine",
                            ![p].e = processReaderInit(makeBuffer(InputBlockSize))]
             /\ log' = [log EXCEPT ![t].data0 = makeBuffer(InputBlockSize),
                                   ![t].opened = @ + 1]
             /\ UNCHANGED out
        ELSE out' = [out EXCEPT !.fatal = "accept"] /\ UNCHANGED <<procs, log>>
  /\ UNCHANGED <<options, global, InputBlockSize, fs, engineVars, otherVars, targets, env, main,
                 filesChan, resultsChan, matchChan, handler, targetsWaitGroup>>

\* ------------------------------------------------- processReader in a worker
\* Where the goroutine goes after an iteration: to the channel send the
\* iteration reached, to the return, or to the next Read.
afterIteration(e) ==
  IF e.outResult # NoResult THEN "sendResult"
  ELSE IF e.outBatch # <<>> THEN "sendBatch"
  ELSE IF e.pc = "returned" THEN "return" ELSE "engine"

\* What the next Read of target t returns: the number of bytes (the reader
\* fills the slice it is given), 0 with io.EOF at the end of the target, or
\* -1 for an error.
nextRead(t, e) ==
  IF env[t].readErrAt = Len(log[t].reads) + 1 THEN -1
  ELSE Min(readRoom(Context(t), e), Len(fs[t]) - e.rpos)

\* The iteration of processReader's loop whose Read returned n.
readAndIterate(c, e, n) ==
  IF n = -1 THEN processReaderReadError(e) ELSE processReaderIter(c, e, n, n = 0)

\* The goroutine p after the iteration on target t that left the locals e2.
iterated(p, t, n, e2) ==
  /\ procs' = [procs EXCEPT ![p].e = e2, ![p].pc = afterIteration(e2)]
  /\ log' = [log EXCEPT ![t].reads = Append(@, n), ![t].accumulated = e2.matches]

\* One Read and the iteration of processReader's loop it starts, up to the
\* channel send of that iteration if it has one.
ProcRead(p) ==
  /\ Running
  /\ procs[p].pc = "engine"
  /\ iterated(p, procs[p].target, nextRead(procs[p].target, procs[p].e),
              readAndIterate(Context(procs[p].target), procs[p].e,
                             nextRead(procs[p].target, procs[p].e)))
  /\ UNCHANGED <<options, global, InputBlockSize, fs, engineVars, otherVars, targets, env, main,
                 filesChan, resultsChan, matchChan, handler, targetsWaitGroup, out>>

\* global.resultsChan <- &Result{...}: waits for room in the channel.  A
\* streaming Result carries the matchChan made for it.
ProcSendResult(p) ==
  /\ Running
  /\ procs[p].pc = "sendResult"
  /\ Len(resultsChan.buf) < ResultsChanCap
  /\ LET t == procs[p].target
         e == procs[p].e
     IN /\ resultsChan' = [resultsChan EXCEPT !.buf = Append(@, e.outResult)]
        /\ matchChan' = IF e.outResult.streaming
                        THEN [matchChan EXCEPT ![t].made = TRUE] ELSE matchChan
        /\ log' = [log EXCEPT ![t].results = Append(@, e.outResult)]
        /\ procs' = [procs EXCEPT ![p].pc = IF e.pc = "returned" THEN "return" ELSE "engine"]
  /\ UNCHANGED <<options, global, InputBlockSize, fs, engineVars, otherVars, targets, env, main,
                 filesChan, handler, targetsWaitGroup, out>>

\* matchChan <- newMatches: waits for room in the channel.
ProcSendBatch(p) ==
  /\ Running
  /\ procs[p].pc = "sendBatch"
  /\ LET t == procs[p].target
         e == procs[p].e
     IN /\ Len(matchChan[t].buf) < MatchChanCap
        /\ matchChan' = [matchChan EXCEPT ![t].buf = Append(@, e.outBatch)]
        /\ log' = [log EXCEPT ![t].batches = Append(@, e.outBatch)]
        /\ procs' = [procs EXCEPT ![p].pc = IF e.pc = "returned" THEN "return" ELSE "engine"]
  /\ UNCHANGED <<options, global, InputBlockSize, fs, engineVars, otherVars, targets, env, main,
                 filesChan, resultsChan, handler, targetsWaitGroup, out>>

\* A return that leaves matchChan open.
closeMatchChanNever(ch, e) == ch

\* The deferred close(matchChan), when one was registered.
closeMatchChan(ch, e) ==
  IF e.resultStreaming THEN [ch EXCEPT !.closed = TRUE, !.closes = @ + 1] ELSE ch

\* processReader returns: the deferred close(matchChan) runs, and the caller
\* handles err.  processFileTargets counts errLineTooLong, logs it only with
\* options.ErrShowLineLength, logs other errors and goes on to the next
\* target; processNetworkTarget logs every error and returns
\* (targetsWaitGroup.Done()).
ProcReturn(p) ==
  /\ Running
  /\ procs[p].pc = "return"
  /\ LET t == procs[p].target
         e == procs[p].e
     IN /\ matchChan' = [matchChan EXCEPT ![t] = closeMatchChan(@, e)]
        /\ log' = [log EXCEPT ![t].how = e.how]
        /\ out' = [out EXCEPT
                     !.totalLineLengthErrors =
                        IF p \in FileWorkers /\ e.err = "errLineTooLong" THEN @ + 1 ELSE @,
                     !.errors =
                        IF e.err = "nil" THEN @
                        ELSE IF /\ p \in FileWorkers /\ e.err = "errLineTooLong"
                                /\ ~options.ErrShowLineLength
                        THEN @
                        ELSE @ \cup {<<t, e.err>>}]
        /\ IF p \in FileWorkers
           THEN /\ procs' = [procs EXCEPT ![p].pc = "recv"]
                /\ UNCHANGED targetsWaitGroup
           ELSE /\ procs' = [procs EXCEPT ![p].pc = "exited"]
                /\ targetsWaitGroup' = targetsWaitGroup - 1
  /\ UNCHANGED <<options, global, InputBlockSize, fs, engineVars, otherVars, targets, env, main,
                 filesChan, resultsChan, handler>>

\* ------------------------------------------------------------- printResult
\* The end of the options.Count branch.
countFinish(o, ou, target, matchCount) ==
  [ou EXCEPT
     !.printed = IF o.FilesWithMatches /\ matchCount = 0 THEN @
                 ELSE Append(@, outLine(target, "count", matchCount, NoMatch)),
     !.totalMatchCount = @ + matchCount,
     !.totalResultCount = IF matchCount > 0 THEN @ + 1 ELSE @]

\* The end of printResult after the matches were printed.
printFinish(ou, matchCount) ==
  [ou EXCEPT !.totalMatchCount = @ + matchCount, !.totalResultCount = @ + 1]

\* printMatch for the first k matches of ms.
printMatches(ou, target, ms, k) ==
  [ou EXCEPT !.printed = @ \o [i \in 1..k |-> outLine(target, "match", 0, ms[i])]]

\* printResult up to its first receive from result.matchChan.  pc "recv":
\* printResult has returned; "count" / "stream": it is in the
\* countingMatchesLoop / matchStreamLoop with matchCount.
printResult(o, ou, result) ==
  LET target == result.target
      matches == result.matches
      len == Len(matches)
      named == [ou EXCEPT !.printed = Append(@, outLine(target, "name", 0, NoMatch))]
  IN IF o.FilesWithoutMatch
     THEN [out |-> IF len = 0
                   THEN [named EXCEPT !.totalResultCount = @ + 1] ELSE ou,
           pc |-> "recv", matchCount |-> 0]
     ELSE IF o.FilesWithMatches /\ ~o.Count
     THEN [out |-> IF len > 0
                   THEN [named EXCEPT !.totalMatchCount = @ + 1,
                                      !.totalResultCount = @ + 1]
                   ELSE ou,
           pc |-> "recv", matchCount |-> 0]
     ELSE IF o.Count
     THEN LET matchCount == IF o.Limit # 0 /\ len > o.Limit THEN o.Limit ELSE len
          IN IF result.streaming
             THEN [out |-> ou, pc |-> "count", matchCount |-> matchCount]
             ELSE [out |-> countFinish(o, ou, target, matchCount),
                   pc |-> "recv", matchCount |-> matchCount]
     ELSE IF len = 0
     THEN [out |-> ou, pc |-> "recv", matchCount |-> 0]
     ELSE IF result.isBinary /\ ~o.BinarySkip /\ ~o.BinaryAsText
     THEN [out |-> [ou EXCEPT !.printed = Append(@, outLine(target, "binary", 0, NoMatch)),
                              !.totalMatchCount = @ + 1,
                              !.totalResultCount = @ + 1],
           pc |-> "recv", matchCount |-> 0]
     ELSE LET k == IF o.Limit # 0 THEN Min(len, o.Limit) ELSE len
              ou2 == printMatches(ou, target, matches, k)
          IN IF result.streaming
             THEN [out |-> ou2, pc |-> "stream", matchCount |-> k]
             ELSE [out |-> printFinish(ou2, k), pc |-> "recv", matchCount |-> k]

\* One round of the countingMatchesLoop on a received batch.
drainCount(o, ou, target, matchCount, batch) ==
  LET mc == matchCount + Len(batch)
  IN IF o.Limit # 0 /\ mc >= o.Limit
     THEN [out |-> countFinish(o, ou, target, o.Limit), pc |-> "recv",
           matchCount |-> o.Limit]
     ELSE [out |-> ou, pc |-> "count", matchCount |-> mc]

\* A matchStreamLoop that tests the limit only after a whole batch.
drainStreamWholeBatch(o, ou, target, matchCount, batch) ==
  IF o.Limit # 0 /\ matchCount + Len(batch) >= o.Limit
  THEN [out |-> printFinish(printMatches(ou, target, batch, Len(batch)),
                            matchCount + Len(batch)),
        pc |-> "recv", matchCount |-> matchCount + Len(batch)]
  ELSE [out |-> printMatches(ou, target, batch, Len(batch)), pc |-> "stream",
        matchCount |-> matchCount + Len(batch)]

\* One round of the matchStreamLoop on a received batch: the inner loop
\* prints until matchCount reaches options.Limit.
drainStream(o, ou, target, matchCount, batch) ==
  LET k == IF o.Limit # 0
           THEN Min(Len(batch), IF o.Limit - matchCount > 1 THEN o.Limit - matchCount ELSE 1)
           ELSE Len(batch)
      ou2 == printMatches(ou, target, batch, k)
  IN IF o.Limit # 0 /\ matchCount + k >= o.Limit
     THEN [out |-> printFinish(ou2, matchCount + k), pc |-> "recv",
           matchCount |-> matchCount + k]
     ELSE [out |-> ou2, pc |-> "stream", matchCount |-> matchCount + k]

\* ------------------------------------------------------------ resultHandler
\* "for result := range global.resultsChan" receives a Result: with
\* options.TargetsOnly it prints the target; otherwise it counts the target,
\* applies the conditions (none: applyConditions returns at once) and runs
\* printResult up to its return or its first receive from matchChan.
HandlerReceive ==
  /\ Running
  /\ handler.pc = "recv" /\ resultsChan.buf # <<>>
  /\ LET result == Head(resultsChan.buf)
         pr == printResult(options, [out EXCEPT !.totalTargetCount = @ + 1],
                           applyConditions(global.conditions, result))
     IN /\ resultsChan' = [resultsChan EXCEPT !.buf = Tail(@)]
        /\ IF options.TargetsOnly
           THEN /\ out' = [out EXCEPT !.printed =
                             Append(@, outLine(result.target, "name", 0, NoMatch))]
                /\ UNCHANGED handler
           ELSE /\ out' = pr.out
                /\ handler' = [pc |-> pr.pc, target |-> result.target,
                               matchCount |-> pr.matchCount]
  /\ UNCHANGED <<options, global, InputBlockSize, fs, engineVars, otherVars, targets, env, main,
                 filesChan, matchChan, procs, targetsWaitGroup, log>>

\* "for matches := range result.matchChan" in printResult: receives the next
\* batch, or finds the channel closed and empty and finishes.
HandlerDrain ==
  /\ Running
  /\ handler.pc \in {"count", "stream"}
  /\ LET t == handler.target
         ch == matchChan[t]
         d == IF handler.pc = "count"
              THEN drainCount(options, out, t, handler.matchCount, Head(ch.buf))
              ELSE drainStream(options, out, t, handler.matchCount, Head(ch.buf))
     IN \/ /\ ch.buf # <<>>
           /\ matchChan' = [matchChan EXCEPT ![t].buf = Tail(@)]
           /\ out' = d.out
           /\ handler' = [handler EXCEPT !.pc = d.pc, !.matchCount = d.matchCount]
        \/ /\ ch.buf = <<>> /\ ch.closed
           /\ out' = IF handler.pc = "count"
                     THEN countFinish(options, out, t, handler.matchCount)
                     ELSE printFinish(out, handler.matchCount)
           /\ handler' = [handler EXCEPT !.pc = "recv"]
           /\ UNCHANGED matchChan
  /\ UNCHANGED <<options, global, InputBlockSize, fs, engineVars, otherVars, targets, env, main,
                 filesChan, resultsChan, procs, targetsWaitGroup, log>>

\* resultsChan is closed and empty: the range loop ends and the handler
\* waits to send on global.resultsDoneChan.
HandlerSignal ==
  /\ Running
  /\ handler.pc = "recv"
  /\ resultsChan.buf = <<>> /\ resultsChan.closed
  /\ handler' = [handler EXCEPT !.pc = "signal"]
  /\ UNCHANGED <<options, global, InputBlockSize, fs, engineVars, otherVars, targets, env, main,
                 filesChan, resultsChan, matchChan, procs, targetsWaitGroup, out, log>>

\* The steps that wait for something: channel operations, WaitGroup waits,
\* goroutine starts and exits, Listen and Accept.
ChannelSteps ==
  \/ MainApply \/ MainCompile
  \/ MainTarget \/ MainCloseFilesChan \/ MainCloseResultsChan \/ MainReturn
  \/ \E p \in ProcIds :
       \/ WorkerReceive(p) \/ WorkerSendTarget(p) \/ WorkerExit(p)
       \/ NetListen(p) \/ NetAccept(p)
       \/ ProcSendResult(p) \/ ProcSendBatch(p) \/ ProcReturn(p)
  \/ HandlerReceive \/ HandlerDrain \/ HandlerSignal

NextPipe ==
  \/ ChannelSteps
  \/ \E p \in ProcIds : ProcRead(p)

SpecPipe == InitPipe /\ [][NextPipe]_vars

\* ========================================== conditions specification
\* resultHandler on the Result of one target searched with conditions:
\* result.applyConditions() on what processReader sent for the target.
\* ------------------------------------------------ the conditions of a run
\* Longest distance given to a condition with a distance limit.
MaxWithin == 1

\* Number of lines of the target.
CondLines == 3

\* A condition as processConditions builds it from a --file-matches,
\* --line-matches or --range-matches option (and their negations).
NewFileCondition(o, pattern, conditionType, lineRangeStart, lineRangeEnd, negated) ==
  [regex |-> preparePattern(o, pattern), conditionType |-> conditionType,
   within |-> 0, lineRangeStart |-> lineRangeStart, lineRangeEnd |-> lineRangeEnd,
   negated |-> negated]

DirectionalTypes == {"ConditionPreceded", "ConditionFollowed", "ConditionSurrounded"}

\* The conditions of the model on pattern p: every directional condition
\* with no distance limit or one up to MaxWithin, negated or not, and the
\* whole-file conditions for the lines and ranges of a target of CondLines
\* lines.
DirectionalConditions(o, p) ==
  {NewCondition(o, p, t, w, n) :
     t \in DirectionalTypes, w \in (-1)..MaxWithin, n \in BOOLEAN}

FileConditions(o, p) ==
  {NewFileCondition(o, p, "ConditionFileMatches", 0, 0, n) : n \in BOOLEAN}
  \cup {NewFileCondition(o, p, "ConditionLineMatches", l, 0, n) :
          l \in 1..(CondLines - 1), n \in BOOLEAN}
  \cup {NewFileCondition(o, p, "ConditionRangeMatches", l, l + 1, n) :
          l \in 1..(CondLines - 1), n \in BOOLEAN}

\* global.conditions: one condition on b or on a (the primary pattern), or
\* two conditions on b in the order processConditions appends them (those
\* without a distance limit, then those with one, then file-matches,
\* line-matches and range-matches, the negated last in each group): a
\* directional one without limit, not negated, and a negated or whole-file one.
ConditionLists(o) ==
  {<<c>> : c \in DirectionalConditions(o, PatB) \cup FileConditions(o, PatB)
                 \cup DirectionalConditions(o, PatA) \cup FileConditions(o, PatA)}
  \cup {<<c1, c2>> : c1 \in {c \in DirectionalConditions(o, PatB) : ~c.negated /\ c.within = -1},
                     c2 \in {c \in DirectionalConditions(o, PatB) \cup FileConditions(o, PatB) :
                               c.negated \/ c.conditionType \notin DirectionalTypes}}

\* The lines a target is made of.
CondLineTexts == {<<"a">>, <<"b">>, <<"a", "b">>, <<"b", "a">>}

RECURSIVE CondFiles(_)
\* The targets of k lines.
CondFiles(k) ==
  IF k = 0 THEN {<<>>}
  ELSE {l \o <<NL>> \o f : l \in CondLineTexts, f \in CondFiles(k - 1)}

\* The Result processReader sends for the target: conditions switch
\* streaming off, so it is the one Result sent at the end of the input.
resultOf(log0) == log0.results[1]

InitCond ==
  /\ options = DefaultOptions
  /\ \E conds \in ConditionLists(options) :
       global = ApplyOptions(options, <<PatA>>, conds, TRUE)
  /\ \E f \in CondFiles(CondLines) : fs = [t \in {"f"} |-> f]
  /\ InputBlockSize = 3 * CondLines + 1
  /\ received = resultOf(processReader(Context("f"),
                   processReaderInit(makeBuffer(InputBlockSize)), <<>>, EmptyLog))
  /\ handlerResult = received
  /\ applyCount = 0
  /\ eng = processReaderInit(<<>>)
  /\ sent = EmptyLog
  /\ reads = <<>>
  /\ PipeUnused /\ IgnoreUnused /\ CacheUnused /\ CountUnused /\ InvertUnused /\ SortUnused

\* resultHandler: result.applyConditions()
HandlerApply ==
  /\ applyCount = 0
  /\ handlerResult' = applyConditions(global.conditions, handlerResult)
  /\ applyCount' = 1
  /\ UNCHANGED <<options, global, InputBlockSize, fs, engineVars, pipeVars, received,
                 ignoreVars, cacheVars, countVars, invertVars, sorting>>

\* applyConditions called once more on the Result it has filtered.
ApplyAgain ==
  /\ applyCount = 1
  /\ handlerResult' = applyConditions(global.conditions, handlerResult)
  /\ applyCount' = 2
  /\ UNCHANGED <<options, global, InputBlockSize, fs, engineVars, pipeVars, received,
                 ignoreVars, cacheVars, countVars, invertVars, sorting>>

NextCond == HandlerApply \/ ApplyAgain

SpecCond == InitCond /\ [][NextCond]_vars

\* ============================================ limit specification
\* One target searched with conditions and options.Limit > 0: processReader
\* on the target, for a block that holds the whole target and for blocks of
\* about one line, and resultHandler on the Result it sends.

\* The largest options.Limit of this specification.
MaxLimit == 2

\* One condition on b: a directional one or a whole-file one.
LimitConditionLists(o) ==
  {<<c>> : c \in DirectionalConditions(o, PatB) \cup FileConditions(o, PatB)}

\* The --blocksize values: the longest line and its newline, and the target.
LimitBlockSizes == {4, 3 * CondLines + 1}

InitLimit ==
  /\ \E L \in 1..MaxLimit : options = [DefaultOptions EXCEPT !.Limit = L]
  /\ \E conds \in LimitConditionLists(options) :
       global = ApplyOptions(options, <<PatA>>, conds, TRUE)
  /\ \E f \in CondFiles(CondLines) : fs = [t \in {"f"} |-> f]
  /\ InputBlockSize \in LimitBlockSizes
  /\ received = resultOf(processReader(Context("f"),
                   processReaderInit(makeBuffer(InputBlockSize)), <<>>, EmptyLog))
  /\ handlerResult = received
  /\ applyCount = 0
  /\ out = NoOutput
  /\ eng = processReaderInit(<<>>)
  /\ sent = EmptyLog
  /\ reads = <<>>
  /\ targets = <<>> /\ env = <<>> /\ main = <<>> /\ filesChan = <<>>
  /\ resultsChan = <<>> /\ matchChan = <<>> /\ procs = <<>> /\ handler = <<>>
  /\ targetsWaitGroup = 0 /\ log = <<>>
  /\ IgnoreUnused /\ CacheUnused /\ CountUnused /\ InvertUnused /\ SortUnused

\* resultHandler on the Result received: global.totalTargetCount++,
\* result.applyConditions() and printResult(result).
LimitHandle ==
  /\ applyCount = 0
  /\ handlerResult' = applyConditions(global.conditions, handlerResult)
  /\ out' = printResult(options, [out EXCEPT !.totalTargetCount = @ + 1],
                        handlerResult').out
  /\ applyCount' = 1
  /\ UNCHANGED <<options, global, InputBlockSize, fs, engineVars, targets, env, main,
                 filesChan, resultsChan, matchChan, procs, handler, targetsWaitGroup,
                 log, received, ignoreVars, cacheVars, countVars, invertVars, sorting>>

NextLimit == LimitHandle

SpecLimit == InitLimit /\ [][NextLimit]_vars

\* ================================================= package gitignore
\* Strings are sequences of one-character strings, as the targets' bytes are.
HasPrefix(s, prefix) ==
  Len(s) >= Len(prefix) /\ SubSeq(s, 1, Len(prefix)) = prefix

HasSuffix(s, suffix) ==
  Len(s) >= Len(suffix) /\ SubSeq(s, Len(s) - Len(suffix) + 1, Len(s)) = suffix

\* s[n:]
From(s, n) == SubSeq(s, n + 1, Len(s))

\* strings.Index(s, sep), -1 when sep does not occur.
Index(s, sep) ==
  LET at == {i \in 0..(Len(s) - Len(sep)) : SubSeq(s, i + 1, i + Len(sep)) = sep}
  IN IF at = {} THEN -1 ELSE CHOOSE i \in at : \A j \in at : i <= j

\* strings.Contains(s, sep)
Contains(s, sep) == Index(s, sep) >= 0

\* strings.ContainsAny(s, chars)
ContainsAny(s, chars) == \E i \in 1..Len(s) : s[i] \in chars

\* strings.Count(s, sep) for a separator of one character.
Count(s, sep) == Cardinality({i \in 1..Len(s) : s[i] = sep})

\* strings.Trim(s, " ") = "": nothing but spaces.
IsBlank(s) == \A i \in 1..Len(s) : s[i] = " "

\* strings.Split(s, sep) for a non-empty separator.
RECURSIVE Split(_, _)
Split(s, sep) ==
  IF Index(s, sep) < 0 THEN <<s>>
  ELSE <<SubSeq(s, 1, Index(s, sep))>> \o Split(From(s, Index(s, sep) + Len(sep)), sep)

\* filepath.Match(pattern, name) on Unix for patterns of literals, '*' and
\* '?': '*' stands for any run of non-separator characters, '?' for one
\* non-separator character, and the pattern has to cover the whole name.
RECURSIVE filepathMatch(_, _)
filepathMatch(pattern, name) ==
  IF pattern = <<>> THEN name = <<>>
  ELSE IF Head(pattern) = "*"
  THEN \E k \in 0..Len(name) :
         /\ \A i \in 1..k : name[i] # "/"
         /\ filepathMatch(Tail(pattern), From(name, k))
  ELSE /\ name # <<>>
       /\ IF Head(pattern) = "?" THEN name[1] # "/" ELSE name[1] = Head(pattern)
       /\ filepathMatch(Tail(pattern), Tail(name))

\* filepath.Abs(path) for a clean path: a relative path is joined to the
\* working directory.
Cwd == <<"/", "r">>
Abs(path) == IF HasPrefix(path, <<"/">>) THEN path ELSE Cwd \o <<"/">> \o path

\* fi.Name(): the last element of the path.
RECURSIVE Name(_)
Name(path) ==
  IF Index(path, <<"/">>) < 0 THEN path ELSE Name(From(path, Index(path, <<"/">>) + 1))

\* newSimplePattern, newFilePattern, newPathPattern and newRegexPattern. The
\* compiled regexp of a regexPattern is kept as its quoted parts (joined by
\* ".*?" in the source) and its two anchors.
newSimplePattern(base) ==
  [kind |-> "simplePattern", base |-> base, depth |-> 0,
   parts |-> <<>>, matchStart |-> FALSE, matchEnd |-> FALSE]

newFilePattern(base) ==
  [kind |-> "filePattern", base |-> base, depth |-> 0,
   parts |-> <<>>, matchStart |-> FALSE, matchEnd |-> FALSE]

newPathPattern(base) ==
  [kind |-> "pathPattern", base |-> base,
   depth |-> IF base.leadingSlash THEN 0 ELSE Count(base.content, "/"),
   parts |-> <<>>, matchStart |-> FALSE, matchEnd |-> FALSE]

newRegexPattern(base) ==
  LET matchStart == ~HasPrefix(base.content, <<"*", "*", "/">>)
      c1 == IF matchStart THEN base.content ELSE From(base.content, 3)
      matchEnd == ~HasSuffix(c1, <<"/", "*", "*">>)
      c2 == IF matchEnd THEN c1 ELSE SubSeq(c1, 1, Len(c1) - 3)
  IN [kind |-> "regexPattern", base |-> base, depth |-> 0,
      parts |-> Split(c2, <<"*", "*">>), matchStart |-> matchStart, matchEnd |-> matchEnd]

\* re.MatchString(s) from the start of s: the first part literally, then any
\* characters, then the next part, and the end of s where the regexp ends
\* with "$".
RECURSIVE reMatchHere(_, _, _)
reMatchHere(parts, matchEnd, s) ==
  /\ HasPrefix(s, Head(parts))
  /\ IF Len(parts) = 1
     THEN matchEnd => Len(s) = Len(Head(parts))
     ELSE \E k \in Len(Head(parts))..Len(s) : reMatchHere(Tail(parts), matchEnd, From(s, k))

\* re.MatchString(s): anywhere in s unless the regexp starts with "^".
reMatchString(p, s) ==
  IF p.matchStart THEN reMatchHere(p.parts, p.matchEnd, s)
  ELSE \E k \in 0..Len(s) : reMatchHere(p.parts, p.matchEnd, From(s, k))

\* pathPattern.Matches without a leading slash: the last depth+1 elements of
\* the path.
checkpath(path, depth) ==
  LET slashAt == {i \in 1..Len(path) :
                    /\ path[i] = "/"
                    /\ Cardinality({j \in i..Len(path) : path[j] = "/"}) = depth + 1}
  IN IF slashAt = {} THEN path ELSE From(path, CHOOSE i \in slashAt : TRUE)

\* patternMatcher.Matches(path, fi) of the four pattern types.
Matches(p, path, fi) ==
  IF p.base.matchDirOnly /\ ~fi.isDir THEN FALSE
  ELSE IF p.kind = "simplePattern" THEN fi.name = p.base.content
  ELSE IF p.kind = "filePattern" THEN filepathMatch(p.base.content, fi.name)
  ELSE IF p.kind = "pathPattern"
  THEN IF p.base.leadingSlash THEN filepathMatch(p.base.content, path)
       ELSE IF Count(path, "/") < p.depth THEN FALSE
       ELSE filepathMatch(p.base.content, checkpath(path, p.depth))
  ELSE reMatchString(p, path)

\* The pattern matcher addPattern builds from a pattern that is neither blank
\* nor a comment.
patternMatcherOf(pattern, basePath) ==
  LET negated == HasPrefix(pattern, <<"!">>)
      p1 == IF negated \/ HasPrefix(pattern, <<"\\", "!">>) THEN From(pattern, 1)
            ELSE pattern
      leadingSlash == HasPrefix(p1, <<"/">>)
      p2 == IF leadingSlash THEN From(p1, 1) ELSE p1
      matchDirOnly == HasSuffix(p2, <<"/">>)
      p3 == IF matchDirOnly THEN SubSeq(p2, 1, Len(p2) - 1) ELSE p2
      base == [basePath |-> basePath, content |-> p3, negated |-> negated,
               leadingSlash |-> leadingSlash, matchDirOnly |-> matchDirOnly]
  IN IF Contains(p3, <<"*", "*">>) THEN newRegexPattern(base)
     ELSE IF Contains(p3, <<"/">>) \/ leadingSlash THEN newPathPattern(base)
     ELSE IF ContainsAny(p3, {"*", "?", "["}) THEN newFilePattern(base)
     ELSE newSimplePattern(base)

\* gitIgnore.addPattern(pattern, basePath)
addPattern(c, pattern, basePath) ==
  IF IsBlank(pattern) \/ HasPrefix(pattern, <<"#">>) THEN c
  ELSE [c EXCEPT !.patterns = Append(@, patternMatcherOf(pattern, basePath))]

\* filepath.Dir(path) of a clean absolute path below the root.
RECURSIVE Dir(_)
Dir(path) ==
  IF path = <<>> \/ path[Len(path)] = "/"
  THEN (IF Len(path) > 1 THEN SubSeq(path, 1, Len(path) - 1) ELSE path)
  ELSE Dir(SubSeq(path, 1, Len(path) - 1))

\* The loop of gitIgnore.check run from the first pattern to the last.
RECURSIVE checkFirstToLast(_, _, _, _)
checkFirstToLast(patterns, i, testpath, fi) ==
  IF i > Len(patterns) THEN [ignore |-> FALSE, matched |-> FALSE]
  ELSE IF Matches(patterns[i], testpath, fi)
  THEN [ignore |-> ~patterns[i].base.negated, matched |-> TRUE]
  ELSE checkFirstToLast(patterns, i + 1, testpath, fi)

checkForward(patterns, i, testpath, fi) == checkFirstToLast(patterns, 1, testpath, fi)

\* The loop of gitIgnore.check from pattern index i down to 0.
RECURSIVE checkLoop(_, _, _, _)
checkLoop(patterns, i, testpath, fi) ==
  IF i < 0 THEN [ignore |-> FALSE, matched |-> FALSE]
  ELSE IF Matches(patterns[i + 1], testpath, fi)
  THEN [ignore |-> ~patterns[i + 1].base.negated, matched |-> TRUE]
  ELSE checkLoop(patterns, i - 1, testpath, fi)

\* gitIgnore.check(path, fi)
check(g, path, fi) ==
  IF Len(Abs(path)) <= Len(g.basePath) \/ ~HasPrefix(Abs(path), g.basePath)
  THEN [ignore |-> FALSE, matched |-> FALSE]
  ELSE checkLoop(g.patterns, Len(g.patterns) - 1, From(Abs(path), Len(g.basePath) + 1), fi)

\* gitIgnore.loadIgnoreFile: addPattern for every line the scanner returns.
RECURSIVE addPatterns(_, _, _)
addPatterns(c, lines, basePath) ==
  IF lines = <<>> THEN c
  ELSE addPatterns(addPattern(c, Head(lines), basePath), Tail(lines), basePath)

\* newGitIgnore(path) for a file that can be opened and scanned.
newGitIgnore(path, lines) ==
  addPatterns([basePath |-> Dir(path), patterns |-> <<>>], lines, Dir(path))

\* ============================================ gitignore specification
\* One .gitignore file of up to MaxIgnoreLines lines in the working
\* directory, loaded line by line as loadIgnoreFile does, and then one check
\* of a directory entry below it.
MaxIgnoreLines == 3

GitIgnoreFilename == <<".", "g", "i", "t", "i", "g", "n", "o", "r", "e">>

\* filepath.Join(dir, name) of clean paths.
Join(dir, name) == IF dir = <<"/">> THEN dir \o name ELSE dir \o <<"/">> \o name

IgnoreLines ==
  {<<"a">>, <<"!", "a">>, <<"*">>, <<"/", "a">>, <<"!", "d", "/", "a">>, <<"d", "/">>,
   <<"*", "*", "/", "a">>, <<"\\", "!", "a">>, <<"#", "a">>, <<>>}

IgnoreFiles == UNION {[1..n -> IgnoreLines] : n \in 0..MaxIgnoreLines}

\* The entries processDirectory checks: files and directories below the
\* working directory, named relative to it or absolutely.
Entries ==
  {[path |-> <<"a">>, isDir |-> FALSE], [path |-> <<"a">>, isDir |-> TRUE],
   [path |-> <<"d">>, isDir |-> TRUE], [path |-> <<"d", "/", "a">>, isDir |-> FALSE],
   [path |-> <<"/", "r", "/", "b">>, isDir |-> FALSE]}

FileInfo(e) == [name |-> Name(e.path), isDir |-> e.isDir]

InitIgnore ==
  /\ options = DefaultOptions
  /\ global = ApplyOptions(options, <<PatA>>, <<>>, FALSE)
  /\ InputBlockSize = BlockSize
  /\ fs = <<>>
  /\ eng = processReaderInit(<<>>) /\ sent = EmptyLog /\ reads = <<>>
  /\ PipeUnused /\ CondUnused /\ CacheUnused /\ CountUnused /\ InvertUnused /\ SortUnused
  /\ ignoreFile \in IgnoreFiles
  /\ gi = [basePath |-> Dir(Join(Cwd, GitIgnoreFilename)), patterns |-> <<>>]
  /\ scanned = 0
  /\ verdict = <<>>

\* loadIgnoreFile: one scanner.Scan() and addPattern.
ScanLine ==
  /\ scanned < Len(ignoreFile)
  /\ gi' = addPattern(gi, ignoreFile[scanned + 1], gi.basePath)
  /\ scanned' = scanned + 1
  /\ UNCHANGED <<options, global, InputBlockSize, fs, engineVars, pipeVars, condVars, countVars, invertVars, sorting,
                 cacheVars, ignoreFile, verdict>>

\* gi.check(fullpath, fi) for one entry, once the file is loaded.
CheckEntry ==
  /\ scanned = Len(ignoreFile)
  /\ verdict = <<>>
  /\ \E e \in Entries :
       verdict' = [path |-> e.path, fi |-> FileInfo(e),
                   res |-> check(gi, e.path, FileInfo(e))]
  /\ UNCHANGED <<options, global, InputBlockSize, fs, engineVars, pipeVars, condVars, countVars, invertVars, sorting,
                 cacheVars, ignoreFile, gi, scanned>>

NextIgnore == ScanLine \/ CheckEntry

SpecIgnore == InitIgnore /\ [][NextIgnore]_vars

\* ================================================ cache specification
\* The goroutines of processDirectories take directories from
\* global.directoryChan and run processDirectory on them, which loads the
\* .gitignore files of the directory and of its ancestors through the one
\* GitIgnoreCache of the run.
MaxDirRecursionRoutines == 3

\* options.Cores in this specification.
DirCores == 2

\* The directories queued at the start, at most MaxDirs of them.
MaxDirs == 2

DirRoutines == 1..Min(DirCores, MaxDirRecursionRoutines)

Dirs == {<<"d">>, <<"/", "r">>}

DirQueues == UNION {[1..n -> Dirs] : n \in 1..MaxDirs}

RootIgnoreFile == Join(Cwd, GitIgnoreFilename)
SubIgnoreFile == Join(Abs(<<"d">>), GitIgnoreFilename)

\* The .gitignore files on disk: one in the working directory, which may be
\* unreadable (os.Stat succeeds and os.Open fails), and possibly one in the
\* subdirectory.
GitFileSystems ==
  {[f \in {RootIgnoreFile} |-> [lines |-> <<<<"a">>, <<"!", "a">>>>, readable |-> r]] :
     r \in BOOLEAN}
  \cup
  {[f \in {RootIgnoreFile, SubIgnoreFile} |->
      IF f = RootIgnoreFile THEN [lines |-> <<<<"a">>, <<"!", "a">>>>, readable |-> r]
      ELSE [lines |-> <<<<"*">>>>, readable |-> TRUE]] : r \in BOOLEAN}

\* sync.RWMutex: Lock waits until no reader and no writer holds the mutex.
canLockIgnoringReaders(m) == m.writer = 0
canLock(m) == m.writer = 0 /\ m.readers = {}

\* sync.RWMutex: RLock waits until no writer holds the mutex.
canRLock(m) == m.writer = 0

\* c.cache[path] = gi
cacheStore(c, path, g) ==
  [p \in DOMAIN c \cup {path} |-> IF p = path THEN g ELSE c[p]]

\* The loop of LoadBasePath up to its next call of get: directories without
\* a .gitignore file are passed over, and the loop ends above the root.
RECURSIVE loadNext(_, _)
loadNext(files, c) ==
  IF c.curPath = c.lastPath THEN [c EXCEPT !.pc = "recv"]
  ELSE IF Join(c.curPath, GitIgnoreFilename) \in DOMAIN files
  THEN [c EXCEPT !.pc = "RLock", !.ignoreFile = Join(c.curPath, GitIgnoreFilename)]
  ELSE loadNext(files, [c EXCEPT !.lastPath = c.curPath, !.curPath = Dir(c.curPath)])

\* LoadBasePath after get returned g: c.gitIgnores = append(c.gitIgnores, gi)
\* and the next round of the loop.
gotGitIgnore(files, c, g) ==
  loadNext(files, [c EXCEPT !.gitIgnores = Append(@, g),
                            !.lastPath = c.curPath, !.curPath = Dir(c.curPath)])

IdleRoutine ==
  [pc |-> "recv", curPath |-> <<>>, lastPath |-> <<>>, ignoreFile |-> <<>>,
   gitIgnores |-> <<>>, g |-> 0, parsed |-> <<>>, errors |-> 0]

InitCache ==
  /\ options = DefaultOptions
  /\ global = ApplyOptions(options, <<PatA>>, <<>>, FALSE)
  /\ InputBlockSize = BlockSize
  /\ fs = <<>>
  /\ eng = processReaderInit(<<>>) /\ sent = EmptyLog /\ reads = <<>>
  /\ PipeUnused /\ CondUnused /\ IgnoreUnused /\ CountUnused /\ InvertUnused /\ SortUnused
  /\ gitFiles \in GitFileSystems
  /\ directoryChan \in DirQueues
  /\ cache = <<>>
  /\ mu = [readers |-> {}, writer |-> 0]
  /\ heap = <<>>
  /\ callers = [w \in DirRoutines |-> IdleRoutine]
  /\ stores = <<>>

\* for dirname := range global.directoryChan; processDirectory: LoadBasePath
\* up to its first call of get.
DirReceive(w) ==
  /\ callers[w].pc = "recv"
  /\ directoryChan # <<>>
  /\ directoryChan' = Tail(directoryChan)
  /\ callers' = [callers EXCEPT ![w] =
                   loadNext(gitFiles, [@ EXCEPT !.curPath = Abs(Head(directoryChan)),
                                                !.lastPath = <<>>, !.gitIgnores = <<>>])]
  /\ UNCHANGED <<options, global, InputBlockSize, fs, engineVars, pipeVars, condVars, countVars, invertVars, sorting,
                 ignoreVars, gitFiles, cache, mu, heap, stores>>

\* get: c.mu.RLock()
GetRLock(w) ==
  /\ callers[w].pc = "RLock"
  /\ canRLock(mu)
  /\ mu' = [mu EXCEPT !.readers = @ \cup {w}]
  /\ callers' = [callers EXCEPT ![w].pc = "lookup"]
  /\ UNCHANGED <<options, global, InputBlockSize, fs, engineVars, pipeVars, condVars, countVars, invertVars, sorting,
                 ignoreVars, gitFiles, directoryChan, cache, heap, stores>>

\* get: the lookup in c.cache and c.mu.RUnlock(); on a hit get returns.
GetLookup(w) ==
  /\ callers[w].pc = "lookup"
  /\ mu' = [mu EXCEPT !.readers = @ \ {w}]
  /\ callers' = [callers EXCEPT ![w] =
                   IF @.ignoreFile \in DOMAIN cache
                   THEN gotGitIgnore(gitFiles, @, cache[@.ignoreFile])
                   ELSE [@ EXCEPT !.pc = "parse"]]
  /\ UNCHANGED <<options, global, InputBlockSize, fs, engineVars, pipeVars, condVars, countVars, invertVars, sorting,
                 ignoreVars, gitFiles, directoryChan, cache, heap, stores>>

\* A get that goes on to store the gitIgnore newGitIgnore returns with an
\* error: the instance without the patterns of the file.
GetParseKeepsFailed(w) ==
  /\ callers[w].pc = "parse"
  /\ heap' = Append(heap, IF gitFiles[callers[w].ignoreFile].readable
                          THEN newGitIgnore(callers[w].ignoreFile,
                                            gitFiles[callers[w].ignoreFile].lines)
                          ELSE newGitIgnore(callers[w].ignoreFile, <<>>))
  /\ callers' = [callers EXCEPT ![w].pc = "Lock", ![w].g = Len(heap) + 1,
                                ![w].parsed = Append(@, callers[w].ignoreFile)]
  /\ UNCHANGED <<options, global, InputBlockSize, fs, engineVars, pipeVars, condVars, countVars, invertVars, sorting,
                 ignoreVars, gitFiles, directoryChan, cache, mu, stores>>

\* get: newGitIgnore(path). When the file cannot be opened get and
\* LoadBasePath return the error and processDirectory logs it.
GetParse(w) ==
  /\ callers[w].pc = "parse"
  /\ IF gitFiles[callers[w].ignoreFile].readable
     THEN /\ heap' = Append(heap, newGitIgnore(callers[w].ignoreFile,
                                               gitFiles[callers[w].ignoreFile].lines))
          /\ callers' = [callers EXCEPT ![w].pc = "Lock", ![w].g = Len(heap) + 1,
                                        ![w].parsed = Append(@, callers[w].ignoreFile)]
     ELSE /\ callers' = [callers EXCEPT ![w].pc = "recv", ![w].errors = @ + 1]
          /\ UNCHANGED heap
  /\ UNCHANGED <<options, global, InputBlockSize, fs, engineVars, pipeVars, condVars, countVars, invertVars, sorting,
                 ignoreVars, gitFiles, directoryChan, cache, mu, stores>>

\* get: c.mu.Lock()
GetLock(w) ==
  /\ callers[w].pc = "Lock"
  /\ canLock(mu)
  /\ mu' = [mu EXCEPT !.writer = w]
  /\ callers' = [callers EXCEPT ![w].pc = "store"]
  /\ UNCHANGED <<options, global, InputBlockSize, fs, engineVars, pipeVars, condVars, countVars, invertVars, sorting,
                 ignoreVars, gitFiles, directoryChan, cache, heap, stores>>

\* get: c.cache[path] = gi, c.mu.Unlock() and return gi.
GetStore(w) ==
  /\ callers[w].pc = "store"
  /\ cache' = cacheStore(cache, callers[w].ignoreFile, callers[w].g)
  /\ stores' = Append(stores, [path |-> callers[w].ignoreFile, g |-> callers[w].g, by |-> w])
  /\ mu' = [mu EXCEPT !.writer = 0]
  /\ callers' = [callers EXCEPT ![w] = gotGitIgnore(gitFiles, @, @.g)]
  /\ UNCHANGED <<options, global, InputBlockSize, fs, engineVars, pipeVars, condVars, countVars, invertVars, sorting,
                 ignoreVars, gitFiles, directoryChan, heap>>

NextCache ==
  \E w \in DirRoutines :
    \/ DirReceive(w) \/ GetRLock(w) \/ GetLookup(w) \/ GetParse(w) \/ GetLock(w)
    \/ GetStore(w)

SpecCache == InitCache /\ [][NextCache]_vars

\* ============================================ directory walk specification
\* executeSearch on one directory target, alone or with a network target
\* before or behind it: the directory routines of processDirectories,
\* processDirectory with enqueueDirectory for every subdirectory and a send
\* on global.filesChan for every file, the file workers, the goroutine of
\* processNetworkTarget, the result handler and the shutdown of
\* executeSearch.  What the workers find is left out: a worker sends one
\* Result per file or connection and the handler counts it.  net.Listen and
\* Accept succeed here; their failure is part of the pipeline specification.
\* A send on a closed channel is a panic that ends the process (out.fatal).

\* make(chan string, 128) for global.directoryChan, scaled to the trees.
WalkDirChanCap == 1

\* options.Cores in this specification: executeSearch starts options.Cores
\* processFileTargets goroutines, and processDirectories starts as many
\* directory routines, at most MaxDirRecursionRoutines.
WalkCores == 2

WalkFileWorkers == {FileWorkerNames[i] : i \in 1..WalkCores}

WalkRoutines == 1..Min(WalkCores, MaxDirRecursionRoutines)

WalkDirs == {"r", "s", "t", "u"}

\* A file of a directory.
WalkFile == "f"

\* The directory trees below r, every directory with its entries in the
\* order Readdir returns them.
WalkTrees ==
  { [d \in WalkDirs |->
       CASE d = "r" -> <<"s", "t", "u">> [] d = "s" -> <<WalkFile>>
         [] d = "t" -> <<WalkFile>> [] OTHER -> <<>>],
    [d \in WalkDirs |->
       CASE d = "r" -> <<"s", WalkFile>> [] d = "s" -> <<"t">>
         [] d = "t" -> <<"u", WalkFile>> [] OTHER -> <<>>],
    [d \in WalkDirs |->
       CASE d = "r" -> <<WalkFile, "s", "t">> [] d = "s" -> <<"u">>
         [] d = "t" -> <<WalkFile>> [] OTHER -> <<WalkFile>>] }

\* The target lists of this specification.
WalkTargetLists == {<<"r">>, <<NetTarget, "r">>, <<"r", NetTarget>>}

\* The trees a target list is run on: the directory target alone on every
\* tree, the lists with a network target on the trees with two files.
WalkTreesOf(ts) ==
  IF Len(ts) = 1 THEN WalkTrees ELSE {t \in WalkTrees : t["u"] = <<>>}

\* The call of processDirectory(dirname) at its start.
NewFrame(dirname) == [dir |-> dirname, i |-> 1, pc |-> "entry"]

\* The values the walk never changes.
walkFixed ==
  <<options, InputBlockSize, fs, engineVars, targets, env, matchChan, condVars,
    ignoreVars, gitFiles, cache, mu, heap, stores, countVars, invertVars, sorting>>

InitWalk ==
  /\ options = DefaultOptions
  /\ global = [recurseWaitGroup |-> 0]
  /\ InputBlockSize = BlockSize
  /\ targets \in WalkTargetLists /\ env = DefaultEnv /\ matchChan = <<>>
  /\ fs \in WalkTreesOf(targets)
  /\ eng = processReaderInit(<<>>) /\ sent = EmptyLog /\ reads = <<>>
  /\ main = [pc |-> "targets", i |-> 1]
  /\ filesChan = NewChan
  /\ resultsChan = NewChan
  /\ directoryChan = NewChan
  /\ procs = [p \in WalkFileWorkers \cup {NetWorker} |->
                [pc |-> IF p = NetWorker THEN "unstarted" ELSE "recv", target |-> ""]]
  /\ handler = [pc |-> "recv", target |-> "", matchCount |-> 0]
  /\ targetsWaitGroup = WalkCores
  /\ out = NoOutput
  /\ log = [d \in WalkDirs |-> 0]
  /\ callers = [w \in WalkRoutines |-> [stack |-> <<>>, exited |-> FALSE]]
  /\ gitFiles = <<>> /\ cache = <<>> /\ mu = <<>> /\ heap = <<>> /\ stores = <<>>
  /\ CondUnused /\ IgnoreUnused /\ CountUnused /\ InvertUnused /\ SortUnused

\* A send on channel ch: the channel after it, or a panic when it is closed.
sendOn(ch, v) == [ch EXCEPT !.buf = Append(@, v)]

\* One round of "for _, target := range targets" in executeSearch: for a
\* network target global.targetsWaitGroup.Add(1) and "go
\* processNetworkTarget(target)", for the directory target
\* global.recurseWaitGroup.Add(1) and global.directoryChan <- target.
WalkMainTarget ==
  /\ Running
  /\ main.pc = "targets" /\ main.i <= Len(targets)
  /\ IF isNetTarget(targets[main.i])
     THEN /\ targetsWaitGroup' = targetsWaitGroup + 1
          /\ procs' = [procs EXCEPT ![NetWorker].pc = "listen",
                                    ![NetWorker].target = targets[main.i]]
          /\ UNCHANGED <<global, directoryChan, out>>
     ELSE /\ Len(directoryChan.buf) < WalkDirChanCap
          /\ global' = [global EXCEPT !.recurseWaitGroup = @ + 1]
          /\ IF directoryChan.closed
             THEN /\ out' = [out EXCEPT !.fatal = "send on closed channel"]
                  /\ UNCHANGED directoryChan
             ELSE directoryChan' = sendOn(directoryChan, targets[main.i]) /\ UNCHANGED out
          /\ UNCHANGED <<targetsWaitGroup, procs>>
  /\ main' = [main EXCEPT !.i = @ + 1]
  /\ UNCHANGED <<walkFixed, callers, filesChan, resultsChan, handler, log>>

\* for dirname := range global.directoryChan: processDirectory(dirname) starts.
WalkReceive(w) ==
  /\ Running
  /\ callers[w].stack = <<>> /\ ~callers[w].exited
  /\ directoryChan.buf # <<>>
  /\ directoryChan' = [directoryChan EXCEPT !.buf = Tail(@)]
  /\ callers' = [callers EXCEPT ![w].stack = <<NewFrame(Head(directoryChan.buf))>>]
  /\ UNCHANGED <<walkFixed, global, main, filesChan, resultsChan, procs, handler,
                 targetsWaitGroup, out, log>>

\* The innermost processDirectory call of routine w.
Top(w) == callers[w].stack[Len(callers[w].stack)]

\* That call is at an entry of its directory.
AtEntry(w) ==
  /\ callers[w].stack # <<>>
  /\ Top(w).pc = "entry"
  /\ Top(w).i <= Len(fs[Top(w).dir])

\* The stack with its innermost call changed to frame.
withTop(stack, frame) == [stack EXCEPT ![Len(stack)] = frame]

\* processDirectory on a file: global.filesChan <- fullpath.
WalkSendFile(w) ==
  /\ Running
  /\ AtEntry(w) /\ fs[Top(w).dir][Top(w).i] = WalkFile
  /\ Len(filesChan.buf) < FilesChanCap
  /\ IF filesChan.closed
     THEN out' = [out EXCEPT !.fatal = "send on closed channel"] /\ UNCHANGED filesChan
     ELSE filesChan' = sendOn(filesChan, <<Top(w).dir, Top(w).i>>) /\ UNCHANGED out
  /\ callers' = [callers EXCEPT ![w].stack = withTop(@, [Top(w) EXCEPT !.i = @ + 1])]
  /\ UNCHANGED <<walkFixed, global, main, directoryChan, resultsChan, procs, handler,
                 targetsWaitGroup, log>>

\* enqueueDirectory: global.recurseWaitGroup.Add(1)
WalkAdd(w) ==
  /\ Running
  /\ AtEntry(w) /\ fs[Top(w).dir][Top(w).i] \in WalkDirs
  /\ global' = [global EXCEPT !.recurseWaitGroup = @ + 1]
  /\ callers' = [callers EXCEPT ![w].stack = withTop(@, [Top(w) EXCEPT !.pc = "select"])]
  /\ UNCHANGED <<walkFixed, main, directoryChan, filesChan, resultsChan, procs, handler,
                 targetsWaitGroup, out, log>>

\* An enqueueDirectory that queues the directory when there is room and
\* processes it directly as well.
enqueueDirectoryAndProcess(ch, stack, dirname) ==
  [chan |-> IF Len(ch.buf) < WalkDirChanCap THEN sendOn(ch, dirname) ELSE ch,
   stack |-> Append(stack, NewFrame(dirname)),
   panic |-> ch.closed]

\* enqueueDirectory: the select.  With room in global.directoryChan the
\* directory is queued, otherwise ("default:") processDirectory(dirname) is
\* called at once; a send on the closed channel panics.
enqueueDirectory(ch, stack, dirname) ==
  IF ch.closed THEN [chan |-> ch, stack |-> stack, panic |-> TRUE]
  ELSE IF Len(ch.buf) < WalkDirChanCap
  THEN [chan |-> sendOn(ch, dirname), stack |-> stack, panic |-> FALSE]
  ELSE [chan |-> ch, stack |-> Append(stack, NewFrame(dirname)), panic |-> FALSE]

WalkSelect(w) ==
  /\ Running
  /\ callers[w].stack # <<>> /\ Top(w).pc = "select"
  /\ LET dirname == fs[Top(w).dir][Top(w).i]
         back == withTop(callers[w].stack, [Top(w) EXCEPT !.i = @ + 1, !.pc = "entry"])
         done == enqueueDirectory(directoryChan, back, dirname)
     IN /\ directoryChan' = done.chan
        /\ callers' = [callers EXCEPT ![w].stack = done.stack]
        /\ out' = IF done.panic THEN [out EXCEPT !.fatal = "send on closed channel"]
                  ELSE out
  /\ UNCHANGED <<walkFixed, global, main, filesChan, resultsChan, procs, handler,
                 targetsWaitGroup, log>>

\* processDirectory returns behind the last entry: the deferred
\* global.recurseWaitGroup.Done().
WalkDone(w) ==
  /\ Running
  /\ callers[w].stack # <<>>
  /\ Top(w).pc = "entry" /\ Top(w).i > Len(fs[Top(w).dir])
  /\ callers' = [callers EXCEPT ![w].stack = SubSeq(@, 1, Len(@) - 1)]
  /\ global' = [global EXCEPT !.recurseWaitGroup = @ - 1]
  /\ log' = [log EXCEPT ![Top(w).dir] = @ + 1]
  /\ UNCHANGED <<walkFixed, main, directoryChan, filesChan, resultsChan, procs, handler,
                 targetsWaitGroup, out>>

\* The range loop of a directory routine ends on the closed and drained
\* channel.
WalkRoutineExit(w) ==
  /\ Running
  /\ callers[w].stack = <<>> /\ ~callers[w].exited
  /\ directoryChan.buf = <<>> /\ directoryChan.closed
  /\ callers' = [callers EXCEPT ![w].exited = TRUE]
  /\ UNCHANGED <<walkFixed, global, main, directoryChan, filesChan, resultsChan, procs,
                 handler, targetsWaitGroup, out, log>>

\* global.recurseWaitGroup.Wait() returns; close(global.directoryChan).
WalkCloseDirectoryChan ==
  /\ Running
  /\ main.pc = "targets" /\ main.i > Len(targets)
  /\ global.recurseWaitGroup = 0
  /\ directoryChan' = [directoryChan EXCEPT !.closed = TRUE]
  /\ main' = [main EXCEPT !.pc = "closeFiles"]
  /\ UNCHANGED <<walkFixed, global, callers, filesChan, resultsChan, procs, handler,
                 targetsWaitGroup, out, log>>

\* close(global.filesChan)
WalkCloseFilesChan ==
  /\ Running
  /\ main.pc = "closeFiles"
  /\ filesChan' = [filesChan EXCEPT !.closed = TRUE]
  /\ main' = [main EXCEPT !.pc = "wait"]
  /\ UNCHANGED <<walkFixed, global, callers, directoryChan, resultsChan, procs, handler,
                 targetsWaitGroup, out, log>>

\* processFileTargets receives a file from global.filesChan.
WalkFileReceive(p) ==
  /\ Running
  /\ procs[p].pc = "recv"
  /\ filesChan.buf # <<>>
  /\ filesChan' = [filesChan EXCEPT !.buf = Tail(@)]
  /\ procs' = [procs EXCEPT ![p].pc = "send", ![p].target = Head(filesChan.buf)]
  /\ UNCHANGED <<walkFixed, global, main, callers, directoryChan, resultsChan, handler,
                 targetsWaitGroup, out, log>>

\* processReader sends the Result of the file (named by its directory and
\* its index there) or of the connection (named by the target and 0) on
\* global.resultsChan; processFileTargets goes on with its range loop,
\* processNetworkTarget returns.
WalkFileSend(p) ==
  /\ Running
  /\ procs[p].pc = "send"
  /\ Len(resultsChan.buf) < ResultsChanCap
  /\ IF resultsChan.closed
     THEN out' = [out EXCEPT !.fatal = "send on closed channel"] /\ UNCHANGED resultsChan
     ELSE /\ resultsChan' = sendOn(resultsChan, IF p = NetWorker THEN <<procs[p].target, 0>>
                                                ELSE procs[p].target)
          /\ UNCHANGED out
  /\ procs' = [procs EXCEPT ![p].pc = IF p = NetWorker THEN "return" ELSE "recv"]
  /\ UNCHANGED <<walkFixed, global, main, callers, directoryChan, filesChan, handler,
                 targetsWaitGroup, log>>

\* A processNetworkTarget whose global.targetsWaitGroup.Done() runs as soon
\* as it has listened, not when it returns.
WalkNetDoneEarly(p) ==
  /\ Running
  /\ procs[p].pc = "accept"
  /\ procs' = [procs EXCEPT ![p].pc = "send"]
  /\ targetsWaitGroup' = targetsWaitGroup - 1
  /\ UNCHANGED <<walkFixed, global, main, callers, directoryChan, filesChan, resultsChan,
                 handler, out, log>>

\* listener.Accept returns a connection and processReader starts on it.
WalkNetAccept(p) ==
  /\ Running
  /\ procs[p].pc = "accept"
  /\ procs' = [procs EXCEPT ![p].pc = "send"]
  /\ UNCHANGED <<walkFixed, global, main, callers, directoryChan, filesChan, resultsChan,
                 handler, targetsWaitGroup, out, log>>

\* processNetworkTarget returns: the deferred
\* global.targetsWaitGroup.Done() runs.
WalkNetReturn(p) ==
  /\ Running
  /\ procs[p].pc = "return"
  /\ procs' = [procs EXCEPT ![p].pc = "exited"]
  /\ targetsWaitGroup' = targetsWaitGroup - 1
  /\ UNCHANGED <<walkFixed, global, main, callers, directoryChan, filesChan, resultsChan,
                 handler, out, log>>

\* resultHandler receives a Result: global.totalTargetCount++ and the
\* Result is printed.
WalkHandle ==
  /\ Running
  /\ handler.pc = "recv" /\ resultsChan.buf # <<>>
  /\ resultsChan' = [resultsChan EXCEPT !.buf = Tail(@)]
  /\ out' = [out EXCEPT !.totalTargetCount = @ + 1,
                        !.printed = Append(@, Head(resultsChan.buf))]
  /\ UNCHANGED <<walkFixed, global, main, callers, directoryChan, filesChan, procs,
                 handler, targetsWaitGroup, log>>

\* filesChan is closed and empty: the range loop of processFileTargets ends
\* and the deferred global.targetsWaitGroup.Done() runs.
WalkWorkerExit(p) ==
  /\ Running
  /\ procs[p].pc = "recv"
  /\ filesChan.buf = <<>> /\ filesChan.closed
  /\ procs' = [procs EXCEPT ![p].pc = "exited"]
  /\ targetsWaitGroup' = targetsWaitGroup - 1
  /\ UNCHANGED <<walkFixed, global, main, callers, directoryChan, filesChan, resultsChan,
                 handler, out, log>>

NextWalk ==
  \/ WalkMainTarget \/ WalkCloseDirectoryChan \/ WalkCloseFilesChan
  \/ MainCloseResultsChan \/ MainReturn
  \/ \E w \in WalkRoutines :
       \/ WalkReceive(w) \/ WalkSendFile(w) \/ WalkAdd(w) \/ WalkSelect(w)
       \/ WalkDone(w) \/ WalkRoutineExit(w)
  \/ \E p \in WalkFileWorkers : WalkFileReceive(p) \/ WalkFileSend(p) \/ WalkWorkerExit(p)
  \/ NetListen(NetWorker) \/ WalkNetAccept(NetWorker) \/ WalkFileSend(NetWorker)
  \/ WalkNetReturn(NetWorker)
  \/ WalkHandle \/ HandlerSignal

SpecWalk == InitWalk /\ [][NextWalk]_vars

\* ============================================ counting specification
\* executeSearch with options.Cores processFileTargets goroutines that count
\* the targets given up with errLineTooLong in global.totalLineLengthErrors.
\* The goroutines update the counter without synchronisation, so the update
\* "global.totalLineLengthErrors += 1" is a load and a store that other
\* goroutines' loads and stores may come between.  The Results the workers
\* send are left out; options.ErrSkipLineLength and options.ErrShowLineLength
\* are off.

\* options.Cores in this specification.
CountCores == 2

\* The largest number of targets of a run.
MaxTargets == 3

CountWorkers == 1..CountCores

\* The target lists: l is one line of InputBlockSize bytes, s has such a line
\* after two matching lines, n is a short file.
CountTargetLists == UNION {[1..k -> {"l", "s", "n"}] : k \in 1..MaxTargets}

InitCount ==
  /\ options = DefaultOptions
  /\ global = ApplyOptions(options, <<PatA>>, <<>>, FALSE)
  /\ InputBlockSize = BlockSize
  /\ fs = [t \in {"l", "s", "n"} |-> Contents(t)]
  /\ eng = processReaderInit(<<>>) /\ sent = EmptyLog /\ reads = <<>>
  /\ PipeUnused /\ CondUnused /\ IgnoreUnused /\ CacheUnused /\ InvertUnused /\ SortUnused
  /\ \E ts \in CountTargetLists : workChan = [buf |-> ts, closed |-> FALSE]
  /\ workers = [w \in CountWorkers |-> [pc |-> "recv", loaded |-> 0]]
  /\ lineLengthErrors = 0
  /\ tooLong = 0
  /\ reported = -1

\* err = processReader(...) on the target received from global.filesChan.
readerError(target) ==
  LET done == processReader(Context(target),
                            processReaderInit(makeBuffer(InputBlockSize)), <<>>, EmptyLog)
  IN IF done.how = "lineTooLong" THEN "errLineTooLong" ELSE "nil"

\* for filepath := range global.filesChan: the worker receives a target and
\* processReader runs on it up to its return.
CountReceive(w) ==
  /\ workers[w].pc = "recv"
  /\ workChan.buf # <<>>
  /\ workChan' = [workChan EXCEPT !.buf = Tail(@)]
  /\ IF readerError(Head(workChan.buf)) = "errLineTooLong"
     THEN /\ workers' = [workers EXCEPT ![w].pc = "load"]
          /\ tooLong' = tooLong + 1
     ELSE /\ UNCHANGED <<workers, tooLong>>
  /\ UNCHANGED <<options, global, InputBlockSize, fs, engineVars, pipeVars, condVars,
                 ignoreVars, cacheVars, invertVars, sorting, lineLengthErrors, reported>>

\* global.totalLineLengthErrors += 1: the load.
CountLoad(w) ==
  /\ workers[w].pc = "load"
  /\ workers' = [workers EXCEPT ![w].pc = "store", ![w].loaded = lineLengthErrors]
  /\ UNCHANGED <<options, global, InputBlockSize, fs, engineVars, pipeVars, condVars,
                 ignoreVars, cacheVars, invertVars, sorting, workChan, lineLengthErrors, tooLong, reported>>

\* global.totalLineLengthErrors += 1: the store.
CountStore(w) ==
  /\ workers[w].pc = "store"
  /\ lineLengthErrors' = workers[w].loaded + 1
  /\ workers' = [workers EXCEPT ![w].pc = "recv"]
  /\ UNCHANGED <<options, global, InputBlockSize, fs, engineVars, pipeVars, condVars,
                 ignoreVars, cacheVars, invertVars, sorting, workChan, tooLong, reported>>

\* close(global.filesChan), after the last target was sent.
CountClose ==
  /\ ~workChan.closed
  /\ workChan' = [workChan EXCEPT !.closed = TRUE]
  /\ UNCHANGED <<options, global, InputBlockSize, fs, engineVars, pipeVars, condVars,
                 ignoreVars, cacheVars, invertVars, sorting, workers, lineLengthErrors, tooLong, reported>>

\* The range loop ends on the closed and drained channel:
\* global.targetsWaitGroup.Done().
CountExit(w) ==
  /\ workers[w].pc = "recv"
  /\ workChan.buf = <<>> /\ workChan.closed
  /\ workers' = [workers EXCEPT ![w].pc = "exited"]
  /\ UNCHANGED <<options, global, InputBlockSize, fs, engineVars, pipeVars, condVars,
                 ignoreVars, cacheVars, invertVars, sorting, workChan, lineLengthErrors, tooLong, reported>>

\* global.targetsWaitGroup.Wait() returns and executeSearch reports
\* global.totalLineLengthErrors (a count of 0 prints no message).
CountReport ==
  /\ reported = -1
  /\ \A w \in CountWorkers : workers[w].pc = "exited"
  /\ reported' = lineLengthErrors
  /\ UNCHANGED <<options, global, InputBlockSize, fs, engineVars, pipeVars, condVars,
                 ignoreVars, cacheVars, invertVars, sorting, workChan, workers, lineLengthErrors, tooLong>>

NextCount ==
  \/ \E w \in CountWorkers : CountReceive(w) \/ CountLoad(w) \/ CountStore(w) \/ CountExit(w)
  \/ CountClose
  \/ CountReport

SpecCount == InitCount /\ [][NextCount]_vars

\* ======================================== inverted path specification
\* One processReaderInvertMatch call on one target, for every input up to
\* MaxLen bytes of a, b, A and newline, with and without options.IgnoreCase
\* and the list options.  The input holds no carriage return, which
\* bufio.ScanLines would drop at the end of a line.

\* bufio.MaxScanTokenSize (64 * 1024 in the Go library), scaled to the model's
\* inputs.
MaxScanTokenSize == 3

\* The index of the first newline of input at or after pos, or Len(input).
lineEndFrom(input, pos) ==
  IF \E i \in pos..(Len(input) - 1) : At(input, i) = NL
  THEN CHOOSE i \in pos..(Len(input) - 1) :
         At(input, i) = NL /\ \A j \in pos..(i - 1) : At(input, j) # NL
  ELSE Len(input)

\* scanner.Scan() with bufio.ScanLines at position pos of the input: the next
\* line without its newline, or ok = FALSE at the end of the input and on a
\* line of MaxScanTokenSize bytes or more (bufio.ErrTooLong).
Scan(input, pos) ==
  LET end == lineEndFrom(input, pos)
  IN IF pos >= Len(input) \/ end - pos >= MaxScanTokenSize
     THEN [ok |-> FALSE, line |-> <<>>, next |-> pos]
     ELSE [ok |-> TRUE, line |-> Slice(input, pos, end),
           next |-> Min(end + 1, Len(input))]

\* re.MatchString(line)
MatchString(re, line) == FindAllIndex(re, line) # <<>>

\* The locals of processReaderInvertMatch before the first scanner.Scan().
invertInit == [pc |-> "scan", pos |-> 0, linecount |-> 0, matches |-> <<>>]

\* One iteration of "for scanner.Scan()" on the line scanned.
invertLine(c, v, sc) ==
  LET linecount == v.linecount + 1
      matchFound == \E i \in 1..Len(c.global.matchPatterns) :
                      MatchString(c.global.matchPatterns[i], sc.line)
      v1 == [v EXCEPT !.pos = sc.next, !.linecount = linecount]
  IN IF matchFound THEN [sent |-> <<>>, v |-> v1]
     ELSE IF c.options.FilesWithMatches \/ c.options.FilesWithoutMatch
     THEN [sent |-> <<NewResult(c.target, <<ZeroMatch>>, <<>>, FALSE, FALSE)>>,
           v |-> [v1 EXCEPT !.pc = "returned"]]
     ELSE [sent |-> <<>>,
           v |-> [v1 EXCEPT !.matches =
                    Append(@, [ZeroMatch EXCEPT !.lineno = linecount, !.line = sc.line])]]

InvertOptions ==
  {[DefaultOptions EXCEPT !.InvertMatch = TRUE, !.ShowLineNumbers = TRUE,
                          !.IgnoreCase = ic,
                          !.FilesWithMatches = l, !.FilesWithoutMatch = bigL] :
     ic \in BOOLEAN, l \in BOOLEAN, bigL \in BOOLEAN}

InvertInputs == UNION {[1..n -> {"a", "b", "A", NL}] : n \in 0..MaxLen}

InitInvert ==
  /\ \E o \in InvertOptions, pats \in {<<PatA>>, <<PatB, PatA>>} :
       /\ checkCompatibility(o, <<"f">>) = ""
       /\ options = o
       /\ global = ApplyOptions(o, pats, <<>>, TRUE)
  /\ InputBlockSize = MaxLen + 1
  /\ \E input \in InvertInputs : fs = [t \in {"f"} |-> input]
  /\ eng = processReaderInit(<<>>) /\ sent = EmptyLog /\ reads = <<>>
  /\ PipeUnused /\ CondUnused /\ IgnoreUnused /\ CacheUnused /\ CountUnused /\ SortUnused
  /\ inv = invertInit
  /\ invSent = <<>>

\* scanner.Scan() returns true and the loop body runs on the line.
InvertScan ==
  /\ inv.pc = "scan"
  /\ Scan(fs["f"], inv.pos).ok
  /\ LET step == invertLine(Context("f"), inv, Scan(fs["f"], inv.pos))
     IN inv' = step.v /\ invSent' = invSent \o step.sent
  /\ UNCHANGED <<options, global, InputBlockSize, fs, engineVars, pipeVars, condVars,
                 ignoreVars, cacheVars, countVars, sorting>>

\* scanner.Scan() returns false: the Result with the matches collected is
\* sent and the function returns nil.
InvertReturn ==
  /\ inv.pc = "scan"
  /\ ~Scan(fs["f"], inv.pos).ok
  /\ inv' = [inv EXCEPT !.pc = "returned"]
  /\ invSent' = Append(invSent, NewResult("f", inv.matches, <<>>, FALSE, FALSE))
  /\ UNCHANGED <<options, global, InputBlockSize, fs, engineVars, pipeVars, condVars,
                 ignoreVars, cacheVars, countVars, sorting>>

NextInvert == InvertScan \/ InvertReturn

SpecInvert == InitInvert /\ [][NextInvert]_vars

\* ============================================ sorting specification
\* "sort matches and filter duplicates" on the candidates of one block: the
\* whole target read as one block in single-line mode, with the patterns a
\* and ab, whose candidates start at the same offset on every line "ab".
\* sort.Sort is not stable (package sort: "The sort is not guaranteed to be
\* stable"): on slices of up to maxInsertion elements it runs an insertion
\* sort, in Go 1.6 to 1.18 after a ShellSort pass with gap 6, and on longer
\* ones a quicksort; the pass and the quicksort may leave elements with equal
\* keys in either order.

\* package sort: the longest slice sorted by insertion sort.
MaxInsertion == 12

\* The largest number of lines of a block.
SortLines == 7

\* The pattern "ab".
PatAB == [atoms |-> << [k |-> "one", cls |-> {"a"}], [k |-> "one", cls |-> {"b"}] >>]

RECURSIVE joinLines(_)
\* The bytes of the lines given, each ended by a newline.
joinLines(ls) == IF ls = <<>> THEN <<>> ELSE Head(ls) \o <<NL>> \o joinLines(Tail(ls))

\* The blocks: up to SortLines lines, each "ab" or "a".
SortInputs ==
  {joinLines(ls) : ls \in UNION {[1..n -> {<<"a", "b">>, <<"a">>}] : n \in 1..SortLines}}

RECURSIVE candidatesOf(_, _, _)
\* "for _, re := range matchRegexes": the candidates of every pattern on the
\* block, appended in the order of the patterns.
candidatesOf(o, regexes, data) ==
  IF regexes = <<>> THEN <<>>
  ELSE getMatches(o, Head(regexes), data, data, 0, Len(data), Len(data), 0,
                  [input |-> data, InputBlockSize |-> Len(data)])
         \o candidatesOf(o, Tail(regexes), data)

\* The positions i of a sorted slice where the elements i and i + 1 have the
\* same start.
tiePositions(sorted) ==
  {i \in 1..(Len(sorted) - 1) : sorted[i].start = sorted[i + 1].start}

\* The slice sorted with the elements at the positions of flips exchanged
\* with their successors.
flipped(sorted, flips) ==
  [i \in 1..Len(sorted) |->
     IF i \in flips THEN sorted[i + 1]
     ELSE IF (i - 1) \in flips THEN sorted[i - 1]
     ELSE sorted[i]]

\* The gap of the ShellSort pass that sort.Sort of Go 1.6 to 1.18 makes
\* before the insertion sort.
ShellGap == 6

RECURSIVE shellPass(_, _)
\* for i := a + 6; i < b; i++ { if data.Less(i, i-6) { data.Swap(i, i-6) } }
\* from the element at position i on (positions count from 1).
shellPass(ms, i) ==
  IF i > Len(ms) THEN ms
  ELSE shellPass(IF Less(ms[i], ms[i - ShellGap])
                 THEN [ms EXCEPT ![i] = ms[i - ShellGap], ![i - ShellGap] = ms[i]]
                 ELSE ms,
                 i + 1)

\* What sort.Sort(Matches(newMatches)) may leave in newMatches; src/ pins no
\* toolchain, and the algorithm depends on it.  For a slice of up to
\* MaxInsertion elements: the result of the insertion sort (Go 1.19 and
\* later), or of the ShellSort pass followed by the insertion sort (Go 1.6
\* to 1.18).  For a longer one any order by start (two candidates at most
\* share a start here, one of each pattern).
sortOutcomes(newMatches) ==
  IF Len(newMatches) <= MaxInsertion
  THEN {Sort(newMatches), Sort(shellPass(newMatches, ShellGap + 1))}
  ELSE {flipped(Sort(newMatches), flips) : flips \in SUBSET tiePositions(Sort(newMatches))}

InitSort ==
  /\ options = DefaultOptions
  /\ global = ApplyOptions(options, <<PatA, PatAB>>, <<>>, TRUE)
  /\ \E input \in SortInputs : fs = [t \in {"f"} |-> input]
  /\ InputBlockSize = 3 * SortLines + 1
  /\ eng = processReaderInit(<<>>) /\ sent = EmptyLog /\ reads = <<>>
  /\ PipeUnused /\ CondUnused /\ IgnoreUnused /\ CacheUnused /\ CountUnused
  /\ InvertUnused
  /\ sorting = [pc |-> "collect", candidates |-> <<>>, newMatches |-> <<>>]

\* The loop over matchRegexes that fills newMatches.
SortCollect ==
  /\ sorting.pc = "collect"
  /\ LET found == candidatesOf(options, global.matchPatterns, fs["f"])
     IN sorting' = [pc |-> "sort", candidates |-> found, newMatches |-> found]
  /\ UNCHANGED <<options, global, InputBlockSize, fs, engineVars, pipeVars, condVars,
                 ignoreVars, cacheVars, countVars, invertVars>>

\* sort.Sort(Matches(newMatches))
SortSort ==
  /\ sorting.pc = "sort"
  /\ \E sorted \in sortOutcomes(sorting.newMatches) :
       sorting' = [sorting EXCEPT !.pc = "filter", !.newMatches = sorted]
  /\ UNCHANGED <<options, global, InputBlockSize, fs, engineVars, pipeVars, condVars,
                 ignoreVars, cacheVars, countVars, invertVars>>

\* The loop that filters the duplicates out of newMatches.
SortFilter ==
  /\ sorting.pc = "filter"
  /\ sorting' = [sorting EXCEPT
                   !.pc = "done",
                   !.newMatches = filterDuplicates(options, @, NoMatch, <<>>)]
  /\ UNCHANGED <<options, global, InputBlockSize, fs, engineVars, pipeVars, condVars,
                 ignoreVars, cacheVars, countVars, invertVars>>

NextSort == SortCollect \/ SortSort \/ SortFilter

SpecSort == InitSort /\ [][NextSort]_vars

\* ============================================ context specification
\* One processReader call on a regular file with options.ContextBefore > 0:
\* every Read fills the slice it is given as far as the file reaches, and
\* io.EOF comes with the Read after the last byte.

\* The longest file of the context specification.
ContextLen == 5

\* The largest options.ContextBefore.
MaxContextBefore == 2

ContextInputs == UNION {[1..n -> {"a", "b", NL}] : n \in 1..ContextLen}

InitContext ==
  /\ \E ml \in BOOLEAN, K \in 1..MaxContextBefore :
       /\ options = [DefaultOptions EXCEPT !.Multiline = ml, !.ContextBefore = K]
       /\ global = ApplyOptions(options, <<PatA>>, <<>>, TRUE)
  /\ InputBlockSize \in BlockSizes
  /\ \E input \in ContextInputs : fs = [t \in {"f"} |-> input]
  /\ eng = processReaderInit(makeBuffer(InputBlockSize))
  /\ sent = EmptyLog
  /\ reads = <<>>
  /\ PipeUnused
  /\ OthersUnused

\* infile.Read fills the slice as far as the file reaches, and processReader
\* runs one iteration.
FileRead ==
  /\ eng.pc = "loop"
  /\ Len(fs["f"]) > eng.rpos
  /\ LET n == Min(readRoom(Context("f"), eng), Len(fs["f"]) - eng.rpos)
     IN /\ eng' = processReaderIter(Context("f"), eng, n, FALSE)
        /\ reads' = Append(reads, n)
  /\ sent' = logIteration(sent, eng')
  /\ UNCHANGED <<options, global, InputBlockSize, fs, pipeVars, otherVars>>

NextContext == FileRead \/ EngineEOF

SpecContext == InitContext /\ [][NextContext]_vars

\* ============================================ binary-skip specification
\* One processReader call with options.BinarySkip on a target that holds a
\* NUL byte, for every such input up to MaxLen bytes of a, newline and NUL,
\* both modes, and every way the reader may cut the input into Reads.

InitBinary ==
  /\ \E ml \in BOOLEAN, pats \in {<<PatA>>, <<PatBol, PatA>>, <<PatANLPlus>>} :
       /\ options = [DefaultOptions EXCEPT !.Multiline = ml, !.BinarySkip = TRUE,
                                           !.ShowLineNumbers = TRUE]
       /\ global = ApplyOptions(options, pats, <<>>, TRUE)
  /\ InputBlockSize \in BlockSizes
  /\ \E input \in BinaryInputs : fs = [t \in {"f"} |-> input]
  /\ eng = processReaderInit(makeBuffer(InputBlockSize))
  /\ sent = EmptyLog
  /\ reads = <<>>
  /\ PipeUnused
  /\ OthersUnused

NextBinary == EngineRead \/ EngineEOF

SpecBinary == InitBinary /\ [][NextBinary]_vars

\* ======================================== regex ownership specification
\* executeSearch with options.Cores processFileTargets goroutines and the
\* resultHandler goroutine, with the compiled regular expressions as objects:
\* a *regexp.Regexp is known by the goroutine that compiled it, by what it
\* was compiled for and by its index.  Every goroutine keeps the set of the
\* objects it has searched with.  A worker takes one step for every Read of
\* processReader and one for every channel operation, and the handler one
\* for every receive, as in the pipeline specification.

\* The goroutine of main, which compiles global.matchRegexes and the
\* conditions' regexes.
MainRoutine == 0

\* regexp.Compile / regexp.MustCompile called by goroutine by.
Compile(by, kind, i, pattern) == [by |-> by, kind |-> kind, i |-> i, pattern |-> pattern]

\* global.matchRegexes as main compiles it.
globalMatchRegexes ==
  [i \in 1..Len(global.matchPatterns) |->
     Compile(MainRoutine, "match", i, global.matchPatterns[i])]

\* The regex of global.conditions[i], compiled by processConditions in main.
conditionRegex(i) == Compile(MainRoutine, "condition", i, global.conditions[i].regex)

Range(s) == {s[i] : i \in 1..Len(s)}

\* The targets of this specification, regular files that can be opened and
\* read: m and r (the bytes of m) have a match on each line, n has none.
RegexTargets == {"m", "r", "n"}

\* The target lists: one file, which streams from its first match on, and
\* two files.  A matchChan is known by the target of its Result, so no
\* target comes twice.
RegexTargetLists == {<<"m">>, <<"n">>, <<"m", "n">>, <<"m", "r">>}

\* The options of this specification: --invert-match, --replace and
\* --preceded-by, in the combinations Options.checkCompatibility accepts.
RegexOptions ==
  {o \in {[DefaultOptions EXCEPT !.InvertMatch = v, !.Replace = r, !.Preceded = pre] :
            v \in BOOLEAN, r \in {"", "x"}, pre \in {<<>>, <<PatA>>}} :
     checkCompatibility(o, <<"m">>) = ""}

InitRegex ==
  /\ options \in RegexOptions
  /\ env = DefaultEnv
  /\ \E ts \in RegexTargetLists :
       /\ targets = ts
       /\ workChan = [buf |-> ts, closed |-> FALSE]
       /\ global = ApplyOptions(options, <<PatA, PatAB>>, processConditions(options),
                                singleStreamTarget(ts, DefaultEnv))
  /\ InputBlockSize = BlockSize
  /\ fs = [t \in RegexTargets |-> Contents(t)]
  /\ eng = processReaderInit(<<>>) /\ sent = EmptyLog /\ reads = <<>>
  /\ main = <<>> /\ filesChan = <<>>
  /\ matchChan = [t \in RegexTargets |-> NoMatchChan]
  /\ procs = <<>> /\ targetsWaitGroup = 0
  /\ out = NoOutput /\ log = <<>>
  /\ CondUnused /\ IgnoreUnused /\ CacheUnused /\ InvertUnused /\ SortUnused
  /\ workers = [w \in CountWorkers |->
                  [pc |-> "compile", matchRegexes |-> <<>>, used |-> {},
                   target |-> "", result |-> NoResult,
                   e |-> processReaderInit(makeBuffer(BlockSize))]]
  /\ resultsChan = NewChan
  /\ handler = [pc |-> "recv", target |-> "", matchCount |-> 0, used |-> {}]
  /\ lineLengthErrors = 0
  /\ tooLong = 0
  /\ reported = -1

\* processFileTargets before its loop: the worker compiles its own
\* matchRegexes from global.matchPatterns.
RegexCompile(w) ==
  /\ workers[w].pc = "compile"
  /\ workers' = [workers EXCEPT
                   ![w].pc = "recv",
                   ![w].matchRegexes = [i \in 1..Len(global.matchPatterns) |->
                                          Compile(w, "match", i, global.matchPatterns[i])]]
  /\ UNCHANGED <<options, global, InputBlockSize, fs, engineVars, targets, env, main,
                 filesChan, resultsChan, matchChan, procs, handler, targetsWaitGroup,
                 out, log, condVars, ignoreVars, cacheVars, invertVars, sorting,
                 workChan, lineLengthErrors, tooLong, reported>>

\* The regexes processReaderInvertMatch(reader, matchRegexes, target)
\* searches a target of at least one line with: those of its loop
\* "for _, re := range global.matchRegexes".
invertMatchRegexes(matchRegexes, input) ==
  IF Scan(input, 0).ok THEN Range(globalMatchRegexes) ELSE {}

\* The regexes processReader(reader, matchRegexes, ...) hands to getMatches
\* for a block: those of matchRegexes and those of global.conditions.
readerRegexes(matchRegexes) ==
  Range(matchRegexes) \cup {conditionRegex(i) : i \in 1..Len(global.conditions)}

RECURSIVE processReaderInvertMatch(_, _)
\* processReaderInvertMatch run up to its one send: the Result it sends.
processReaderInvertMatch(c, v) ==
  LET sc == Scan(c.input, v.pos)
  IN IF ~sc.ok THEN NewResult(c.target, v.matches, <<>>, FALSE, FALSE)
     ELSE LET step == invertLine(c, v, sc)
          IN IF step.v.pc = "returned" THEN step.sent[1]
             ELSE processReaderInvertMatch(c, step.v)

\* for filepath := range global.filesChan: the worker receives a target and
\* calls processReaderInvertMatch or processReader with its dataBuffer.
RegexReceive(w) ==
  /\ workers[w].pc = "recv"
  /\ workChan.buf # <<>>
  /\ workChan' = [workChan EXCEPT !.buf = Tail(@)]
  /\ workers' = [workers EXCEPT
                   ![w].pc = IF options.InvertMatch THEN "invert" ELSE "engine",
                   ![w].target = Head(workChan.buf),
                   ![w].e = processReaderInit(@.data)]
  /\ UNCHANGED <<options, global, InputBlockSize, fs, engineVars, targets, env, main,
                 filesChan, resultsChan, matchChan, procs, handler, targetsWaitGroup,
                 out, log, condVars, ignoreVars, cacheVars, invertVars, sorting,
                 lineLengthErrors, tooLong, reported>>

\* processReaderInvertMatch up to its send on global.resultsChan: the
\* function sends once, as its last statement or at the list-option exit.
RegexInvert(w) ==
  /\ workers[w].pc = "invert"
  /\ workers' =
       [workers EXCEPT
          ![w].pc = "sendResult",
          ![w].used = @ \cup invertMatchRegexes(workers[w].matchRegexes,
                                                fs[workers[w].target]),
          ![w].result = processReaderInvertMatch(Context(workers[w].target), invertInit)]
  /\ UNCHANGED <<options, global, InputBlockSize, fs, engineVars, targets, env, main,
                 filesChan, resultsChan, matchChan, procs, handler, targetsWaitGroup,
                 out, log, condVars, ignoreVars, cacheVars, invertVars, sorting,
                 workChan, lineLengthErrors, tooLong, reported>>

\* What the next Read of file t returns: the reader fills the slice it is
\* given, and returns 0 with io.EOF at the end of the file.
fileRead(t, e) == Min(readRoom(Context(t), e), Len(fs[t]) - e.rpos)

\* The iteration that took the locals from e to e2 reached the loops over
\* matchRegexes and global.conditions: it returned after them, or advanced
\* offset at its end (the "continue" of a block without a newline and the
\* returns before the loops do neither).
iterationSearched(e, e2) ==
  IF e2.pc = "returned" THEN e2.how \in {"eof", "limit", "listOption"}
  ELSE e2.offset > e.offset

\* The worker after the iteration that left the locals e2.
regexIterated(w, e2) ==
  workers' = [workers EXCEPT
                ![w].e = e2,
                ![w].pc = afterIteration(e2),
                ![w].result = e2.outResult,
                ![w].used = IF iterationSearched(workers[w].e, e2)
                            THEN @ \cup readerRegexes(workers[w].matchRegexes)
                            ELSE @]

\* One Read and the iteration of processReader's loop it starts, up to the
\* channel send of that iteration if it has one.
RegexRead(w) ==
  /\ workers[w].pc = "engine"
  /\ regexIterated(w, processReaderIter(Context(workers[w].target), workers[w].e,
                                        fileRead(workers[w].target, workers[w].e),
                                        fileRead(workers[w].target, workers[w].e) = 0))
  /\ UNCHANGED <<options, global, InputBlockSize, fs, engineVars, targets, env, main,
                 filesChan, resultsChan, matchChan, procs, handler, targetsWaitGroup,
                 out, log, condVars, ignoreVars, cacheVars, invertVars, sorting,
                 workChan, lineLengthErrors, tooLong, reported>>

\* global.resultsChan <- &Result{...}: waits for room in the channel.  A
\* streaming Result carries the matchChan made for it, and processReader
\* goes on reading behind it.
RegexSendResult(w) ==
  /\ workers[w].pc = "sendResult"
  /\ Len(resultsChan.buf) < ResultsChanCap
  /\ resultsChan' = [resultsChan EXCEPT !.buf = Append(@, workers[w].result)]
  /\ matchChan' = IF workers[w].result.streaming
                  THEN [matchChan EXCEPT ![workers[w].target].made = TRUE]
                  ELSE matchChan
  /\ workers' = [workers EXCEPT
                   ![w].pc = IF options.InvertMatch \/ workers[w].e.pc = "returned"
                             THEN "return" ELSE "engine",
                   ![w].result = NoResult]
  /\ UNCHANGED <<options, global, InputBlockSize, fs, engineVars, targets, env, main,
                 filesChan, procs, handler, targetsWaitGroup,
                 out, log, condVars, ignoreVars, cacheVars, invertVars, sorting,
                 workChan, lineLengthErrors, tooLong, reported>>

\* matchChan <- newMatches: waits for room in the channel.
RegexSendBatch(w) ==
  /\ workers[w].pc = "sendBatch"
  /\ Len(matchChan[workers[w].target].buf) < MatchChanCap
  /\ matchChan' = [matchChan EXCEPT
                     ![workers[w].target].buf = Append(@, workers[w].e.outBatch)]
  /\ workers' = [workers EXCEPT
                   ![w].pc = IF workers[w].e.pc = "returned" THEN "return" ELSE "engine"]
  /\ UNCHANGED <<options, global, InputBlockSize, fs, engineVars, targets, env, main,
                 filesChan, resultsChan, procs, handler, targetsWaitGroup,
                 out, log, condVars, ignoreVars, cacheVars, invertVars, sorting,
                 workChan, lineLengthErrors, tooLong, reported>>

\* processReader or processReaderInvertMatch returns: the deferred
\* close(matchChan) runs when one was registered, and the worker goes on to
\* the next target.
RegexReturn(w) ==
  /\ workers[w].pc = "return"
  /\ matchChan' = [matchChan EXCEPT
                     ![workers[w].target] = closeMatchChan(@, workers[w].e)]
  /\ workers' = [workers EXCEPT ![w].pc = "recv", ![w].target = ""]
  /\ UNCHANGED <<options, global, InputBlockSize, fs, engineVars, targets, env, main,
                 filesChan, resultsChan, procs, handler, targetsWaitGroup,
                 out, log, condVars, ignoreVars, cacheVars, invertVars, sorting,
                 workChan, lineLengthErrors, tooLong, reported>>

RECURSIVE searchedUpTo(_, _, _)
\* "for _, re := range global.matchRegexes" in printMatch from index i on:
\* the regexes searched for matchTest, up to the first that finds it.
searchedUpTo(regexes, i, matchTest) ==
  IF i > Len(regexes) THEN {}
  ELSE IF FindAllIndex(regexes[i].pattern, matchTest) # <<>> THEN {regexes[i]}
  ELSE {regexes[i]} \cup searchedUpTo(regexes, i + 1, matchTest)

\* The regexes printMatch searches with for match: those of the loop above
\* when options.Replace is set and options.InvertMatch is not.
printMatchRegexes(o, match) ==
  IF ~o.InvertMatch /\ o.Replace # ""
  THEN searchedUpTo(globalMatchRegexes, 1,
                    IF o.IgnoreCase THEN bytesToLower(match.match, Len(match.match))
                    ELSE match.match)
  ELSE {}

\* The regexes searched by the printMatch calls that wrote the lines of
\* after behind those of before.
printedRegexes(o, before, after) ==
  UNION {IF after[i].kind = "match" THEN printMatchRegexes(o, after[i].m) ELSE {} :
           i \in (Len(before) + 1)..Len(after)}

\* The handler after a step of printResult that left it at pc with
\* matchCount and the output ou.
regexPrinted(target, pr) ==
  /\ out' = pr.out
  /\ handler' = [pc |-> pr.pc, target |-> target, matchCount |-> pr.matchCount,
                 used |-> handler.used
                            \cup printedRegexes(options, out.printed, pr.out.printed)]

\* "for result := range global.resultsChan" receives a Result
\* (options.TargetsOnly is off): resultHandler counts the target, applies
\* the conditions and runs printResult up to its return or its first
\* receive from result.matchChan.
RegexHandle ==
  /\ handler.pc = "recv" /\ resultsChan.buf # <<>>
  /\ resultsChan' = [resultsChan EXCEPT !.buf = Tail(@)]
  /\ regexPrinted(Head(resultsChan.buf).target,
                  printResult(options, [out EXCEPT !.totalTargetCount = @ + 1],
                              applyConditions(global.conditions, Head(resultsChan.buf))))
  /\ UNCHANGED <<options, global, InputBlockSize, fs, engineVars, targets, env, main,
                 filesChan, matchChan, procs, targetsWaitGroup,
                 log, condVars, ignoreVars, cacheVars, invertVars, sorting,
                 workChan, workers, lineLengthErrors, tooLong, reported>>

\* "for matches := range result.matchChan" in printResult: receives the next
\* batch and prints it, or finds the channel closed and empty and finishes.
RegexDrain ==
  /\ handler.pc \in {"count", "stream"}
  /\ \/ /\ matchChan[handler.target].buf # <<>>
        /\ matchChan' = [matchChan EXCEPT ![handler.target].buf = Tail(@)]
        /\ regexPrinted(handler.target,
                        IF handler.pc = "count"
                        THEN drainCount(options, out, handler.target, handler.matchCount,
                                        Head(matchChan[handler.target].buf))
                        ELSE drainStream(options, out, handler.target, handler.matchCount,
                                         Head(matchChan[handler.target].buf)))
     \/ /\ matchChan[handler.target].buf = <<>> /\ matchChan[handler.target].closed
        /\ out' = IF handler.pc = "count"
                  THEN countFinish(options, out, handler.target, handler.matchCount)
                  ELSE printFinish(out, handler.matchCount)
        /\ handler' = [handler EXCEPT !.pc = "recv"]
        /\ UNCHANGED matchChan
  /\ UNCHANGED <<options, global, InputBlockSize, fs, engineVars, targets, env, main,
                 filesChan, resultsChan, procs, targetsWaitGroup,
                 log, condVars, ignoreVars, cacheVars, invertVars, sorting,
                 workChan, workers, lineLengthErrors, tooLong, reported>>

\* close(global.filesChan), after the last target was sent.
RegexClose ==
  /\ ~workChan.closed
  /\ workChan' = [workChan EXCEPT !.closed = TRUE]
  /\ UNCHANGED <<options, global, InputBlockSize, fs, engineVars, targets, env, main,
                 filesChan, resultsChan, matchChan, procs, handler, targetsWaitGroup,
                 out, log, condVars, ignoreVars, cacheVars, invertVars, sorting,
                 workers, lineLengthErrors, tooLong, reported>>

\* The range loop ends on the closed and drained channel.
RegexExit(w) ==
  /\ workers[w].pc = "recv"
  /\ workChan.buf = <<>> /\ workChan.closed
  /\ workers' = [workers EXCEPT ![w].pc = "exited"]
  /\ UNCHANGED <<options, global, InputBlockSize, fs, engineVars, targets, env, main,
                 filesChan, resultsChan, matchChan, procs, handler, targetsWaitGroup,
                 out, log, condVars, ignoreVars, cacheVars, invertVars, sorting,
                 workChan, lineLengthErrors, tooLong, reported>>

NextRegex ==
  \/ \E w \in CountWorkers :
       \/ RegexCompile(w) \/ RegexReceive(w) \/ RegexInvert(w) \/ RegexRead(w)
       \/ RegexSendResult(w) \/ RegexSendBatch(w) \/ RegexReturn(w)
       \/ RegexExit(w)
  \/ RegexHandle \/ RegexDrain
  \/ RegexClose

SpecRegex == InitRegex /\ [][NextRegex]_vars

\* ============================================ options specification
\* main up to the return of options.Apply, for every combination of the
\* options that Options.checkCompatibility tests among those of the model,
\* on a file, STDIN, a network target and a list of two targets.

ApplyTargetLists == {<<"m">>, <<Stdin>>, <<NetTarget>>, <<"m", Stdin>>}

\* The largest number of context lines asked for.
MaxContext == 1

ApplyOptionSets ==
  {[DefaultOptions EXCEPT !.InvertMatch = v, !.Multiline = ml,
                          !.ContextBefore = cb, !.ContextAfter = ca,
                          !.Count = cnt, !.FilesWithMatches = l,
                          !.TargetsOnly = t, !.ErrSkipLineLength = skip,
                          !.ErrShowLineLength = show] :
     v \in BOOLEAN, ml \in BOOLEAN, cb \in 0..MaxContext, ca \in 0..MaxContext,
     cnt \in BOOLEAN, l \in BOOLEAN, t \in BOOLEAN, skip \in BOOLEAN,
     show \in BOOLEAN}

InitApply ==
  /\ targets \in ApplyTargetLists
  /\ options \in ApplyOptionSets
  /\ env = DefaultEnv
  /\ global = GlobalAtStart(<<PatA>>)
  /\ InputBlockSize = BlockSize
  /\ fs = [t \in TargetNames |-> Contents(t)]
  /\ main = [pc |-> "apply", i |-> 1]
  /\ filesChan = NewChan
  /\ resultsChan = NewChan
  /\ matchChan = [t \in TargetNames |-> NoMatchChan]
  /\ procs = [p \in ProcIds |->
                [pc |-> IF p \in FileWorkers THEN "recv" ELSE "unstarted",
                 target |-> "",
                 e |-> processReaderInit(makeBuffer(InputBlockSize))]]
  /\ handler = [pc |-> "recv", target |-> "", matchCount |-> 0]
  /\ targetsWaitGroup = Cores
  /\ out = NoOutput
  /\ log = [t \in TargetNames |-> NoTargetLog]
  /\ eng = processReaderInit(<<>>)
  /\ sent = EmptyLog
  /\ reads = <<>>
  /\ OthersUnused

NextApply == MainApply

SpecApply == InitApply /\ [][NextApply]_vars

\* ------------------------------------------------- engine properties
\* The primary matches the call has emitted so far.
Emitted == emittedMatches(sent)

\* The condition matches of the Results sent so far.
EmittedConditionMatches ==
  IF sent.results = <<>> THEN <<>> ELSE sent.results[1].conditionMatches

\* processReader has returned without an error.
EngineDone == eng.pc = "returned" /\ eng.err = "nil"

\* The run under InputBlockSize in which every Read fills the slice it is
\* given, as a file reader does.
FillingRun ==
  processReader(Context("f"), processReaderInit(makeBuffer(InputBlockSize)), <<>>, EmptyLog)

\* C1: for a fixed input, pattern list and options, the matches emitted under
\* any block size (by a run whose reads fill the block) are the same as when
\* the whole input is read in one block.
C1_SameAsOneBlock ==
  (EngineDone /\ sent = FillingRun) =>
    Emitted = emittedMatches(readInOneBlock(Context("f")))

\* C2: the emitted primary matches of a target have strictly ascending start
\* offsets (no two share a start), in both modes and for several patterns.
C2_StrictlyAscendingStarts ==
  \A i \in 1..(Len(Emitted) - 1) : Emitted[i].start < Emitted[i + 1].start

\* C3: in single-line mode successive emitted primary matches lie on strictly
\* later lines: M2.lineEnd > M1.lineEnd.
C3_OneMatchPerLine ==
  ~options.Multiline =>
    \A i \in 1..(Len(Emitted) - 1) : Emitted[i + 1].lineEnd > Emitted[i].lineEnd

\* C3 witness: single-line mode, two patterns whose candidates compete (one
\* was dropped in the last block), and matches emitted from different blocks
\* (the Result and a later batch).
C3_Witness ==
  /\ ~options.Multiline
  /\ Len(global.matchPatterns) = 2
  /\ Len(sent.results) = 1 /\ Len(sent.batches) >= 1
  /\ eng.outBatch # <<>> /\ eng.candidates > Len(eng.outBatch)

\* C4: in multiline mode successive emitted primary matches do not overlap:
\* M2.start >= M1.end.
C4_NoOverlap ==
  options.Multiline =>
    \A i \in 1..(Len(Emitted) - 1) : Emitted[i + 1].start >= Emitted[i].end

\* C4 witness: multiline mode; a block was scanned whose candidates were all
\* dropped against lastMatch, a match emitted in an earlier block that
\* reaches into the part of the buffer this block scanned again.
C4_Witness ==
  /\ options.Multiline
  /\ eng.lastMatch # NoMatch
  /\ eng.candidates > 0 /\ eng.outBatch = <<>> /\ eng.outResult = NoResult
  /\ Len(sent.results) = 1
  /\ sent.results[1].streaming
  /\ Len(reads) >= 2
  /\ eng.lastMatch.end > eng.lastMatch.start

\* C5: every emitted match has start <= end, lineStart <= start and
\* end <= lineEnd, and in single-line mode neither its match text nor its
\* line text contains a newline.
MatchWellFormed(m) ==
  /\ m.start <= m.end /\ m.lineStart <= m.start /\ m.end <= m.lineEnd
  /\ ~options.Multiline =>
       /\ \A i \in 1..Len(m.match) : m.match[i] # NL
       /\ \A i \in 1..Len(m.line) : m.line[i] # NL

C5_MatchesWellFormed ==
  /\ \A i \in 1..Len(Emitted) : MatchWellFormed(Emitted[i])
  /\ \A i \in 1..Len(EmittedConditionMatches) : MatchWellFormed(EmittedConditionMatches[i])

\* C5 witness: single-line mode and a raw match of the regex that spans two
\* lines of the input, from which two per-line matches were emitted.
C5_Witness ==
  /\ ~options.Multiline
  /\ EngineDone
  /\ Len(reads) = 1
  /\ \E idx \in {FindAllIndex(global.matchPatterns[1], fs["f"])[k] :
                   k \in 1..Len(FindAllIndex(global.matchPatterns[1], fs["f"]))} :
        /\ containsNewline(fs["f"], idx[1], idx[2])
        /\ \E i \in 1..(Len(sent.results[1].matches) - 1) :
             /\ idx[1] <= Emitted[i].start /\ Emitted[i + 1].end <= idx[2]

\* C6: when line numbers are computed, every emitted primary match and every
\* condition match has lineno = 1 + the number of newlines of the target
\* before its lineStart.
LinenoCorrect(m) ==
  m.lineno = 1 + Cardinality({i \in 1..m.lineStart : fs["f"][i] = NL})

C6_LineNumbers ==
  (\/ options.ShowLineNumbers \/ options.ContextBefore > 0
   \/ options.ContextAfter > 0 \/ Len(global.conditions) > 0) =>
    /\ \A i \in 1..Len(Emitted) : LinenoCorrect(Emitted[i])
    /\ \A i \in 1..Len(EmittedConditionMatches) :
         LinenoCorrect(EmittedConditionMatches[i])

\* C6 witness: three blocks, the first without any match, and both a primary
\* match and a condition match on line 3, the last line, which has no
\* terminating newline.
C6_Witness ==
  /\ EngineDone
  /\ Len(reads) >= 3
  /\ Len(Emitted) = 1 /\ Emitted[1].lineno = 3
  /\ Emitted[1].lineEnd = Len(fs["f"]) /\ fs["f"][Len(fs["f"])] # NL
  /\ \E i \in 1..Len(EmittedConditionMatches) : EmittedConditionMatches[i].lineno = 3


\* ------------------------------------------------- pipeline properties
\* The Results with streaming = true sent for target t.
streamingResults(t) ==
  Cardinality({i \in 1..Len(log[t].results) : log[t].results[i].streaming})

\* processReader on target t with the same buffer and the same Reads, but
\* with streaming not allowed.
nonStreamingRun(t) ==
  processReader([Context(t) EXCEPT !.global.streamingAllowed = FALSE],
                processReaderInit(log[t].data0), log[t].reads, EmptyLog)

\* The targets of the run.
Targets == {targets[i] : i \in 1..Len(targets)}

\* C7 as stated: once processReader has returned for a target, whichever way,
\* exactly one Result for it has been sent on global.resultsChan (and never
\* more than one is sent).
C7_ExactlyOneResult ==
  \A t \in TargetNames :
    /\ Len(log[t].results) <= 1
    /\ log[t].how # "" => Len(log[t].results) = 1

\* C7 amended: at most one Result is sent per target; exactly one when
\* processReader returns at the end of input, at the limit or by the
\* list-option exit; none when it returns for binary-skip; and when it
\* returns errLineTooLong or a read error, none unless the streaming Result
\* had been sent before.
C7_OneResultUnlessSkipped ==
  \A t \in TargetNames :
    /\ Len(log[t].results) <= 1
    /\ log[t].how \in {"eof", "limit", "listOption"} => Len(log[t].results) = 1
    /\ log[t].how = "binarySkip" => Len(log[t].results) = 0
    /\ log[t].how \in {"lineTooLong", "readError"} =>
         \A i \in 1..Len(log[t].results) : log[t].results[i].streaming

\* C7 witness: the run has ended; l was given up with errLineTooLong and no
\* Result was sent for it, while exactly one was sent for n.
C7_Witness ==
  /\ main.pc = "done"
  /\ targets = <<"l", "n">>
  /\ log["l"].how = "lineTooLong" /\ Len(log["l"].results) = 0
  /\ log["n"].how = "eof" /\ Len(log["n"].results) = 1

\* C8: a target has at most one streaming Result; without one there is no
\* matchChan and no batch; the matches the engine keeps are not appended to
\* after the Result was sent; matchChan is closed exactly once, when
\* processReader returns; and then the Result's matches followed by the
\* batches are the matches a run without streaming accumulates.
C8_StreamingHandOff ==
  \A t \in TargetNames :
    /\ streamingResults(t) <= 1
    /\ streamingResults(t) = 0 =>
         /\ log[t].batches = <<>>
         /\ ~matchChan[t].made /\ matchChan[t].closes = 0
    /\ streamingResults(t) = 1 =>
         /\ Len(log[t].results) = 1
         /\ log[t].accumulated = log[t].results[1].matches
         /\ matchChan[t].closes = (IF log[t].how # "" THEN 1 ELSE 0)
         /\ matchChan[t].closed = (log[t].how # "")
         /\ log[t].how # "" =>
              log[t].results[1].matches \o flatten(log[t].batches)
                = nonStreamingRun(t).accumulated

\* C8 witness: the run has ended; m streamed once its matches exceeded the
\* threshold, two later blocks went through matchChan as batches, the
\* channel was closed, and all 8 matches were printed.
C8_Witness ==
  /\ main.pc = "done"
  /\ targets = <<"m", "n">>
  /\ streamingResults("m") = 1
  /\ Len(log["m"].results[1].matches) > StreamingThreshold
  /\ Len(log["m"].batches) = 2
  /\ matchChan["m"].closes = 1
  /\ Len(out.printed) = 8

\* Some goroutine can take a step: one is about to Read (a Read always
\* returns), or a channel step is possible.
CanStep ==
  \/ \E p \in ProcIds : Running /\ procs[p].pc = "engine"
  \/ ENABLED ChannelSteps

\* C9: the pipeline runs to completion: as long as executeSearch has not
\* returned (and the process was not ended), some goroutine can take a step;
\* no worker stays blocked on a channel.
C9_RunsToCompletion ==
  main.pc = "done" \/ out.fatal # "" \/ CanStep

\* What C10 promises of a run that ended: a file that could not be opened was
\* never read and has no Result, every other target went through
\* processReader, and every Result was received and rendered (with
\* --targets no file is opened at all).
FailingTargetsSkipped ==
  main.pc = "done" =>
    /\ resultsChan.buf = <<>> /\ handler.pc = "exited"
    /\ \A p \in ProcIds : procs[p].pc \in {"exited", "unstarted"}
    /\ \A t \in Targets :
         IF options.TargetsOnly /\ ~isNetTarget(t)
         THEN log[t].opened = 0
         ELSE IF t # Stdin /\ ~isNetTarget(t) /\ ~env[t].openable
         THEN /\ log[t].opened = 0 /\ log[t].results = <<>>
              /\ <<t, "cannot open file">> \in out.errors
         ELSE /\ log[t].opened = 1 /\ log[t].how # ""
              /\ log[t].how = "readError" => <<t, "readError">> \in out.errors
              /\ log[t].how = "lineTooLong" =>
                   IF isNetTarget(t) THEN <<t, "errLineTooLong">> \in out.errors
                   ELSE /\ out.totalLineLengthErrors > 0
                        /\ options.ErrShowLineLength =>
                             <<t, "errLineTooLong">> \in out.errors
                        /\ ~options.ErrSkipLineLength /\ ~options.ErrShowLineLength =>
                             <<"", "files skipped due to very long lines">> \in out.errors

\* C10 as stated: no per-target failure (open, listen, accept, read error,
\* LineTooLong) ends the process, failing targets are skipped and the others
\* are processed and rendered.
C10_NoFailureAborts ==
  /\ out.fatal \in {"", "options", "pattern"}
  /\ FailingTargetsSkipped


\* ----------------------------------------------- conditions properties
\* The conditions of the run, the matches and the condition matches of the
\* Result as it was received.
Conds == global.conditions
ReceivedMatches == {received.matches[i] : i \in 1..Len(received.matches)}
KeptMatches == {handlerResult.matches[i] : i \in 1..Len(handlerResult.matches)}
CondMatchesOf(i) ==
  {received.conditionMatches[k] : k \in {k \in 1..Len(received.conditionMatches) :
                                          received.conditionMatches[k].conditionID = i - 1}}

\* Line distance with its sign and without.
AbsDist(x, y) == IF x > y THEN x - y ELSE y - x

\* What it means for condition match cm to satisfy condition c for match m.
Satisfies(c, cm, m) ==
  CASE c.conditionType = "ConditionPreceded" ->
         \/ m.lineno - cm.lineno = 0 /\ cm.start < m.start
         \/ m.lineno - cm.lineno > 0 /\ (c.within = -1 \/ m.lineno - cm.lineno <= c.within)
    [] c.conditionType = "ConditionFollowed" ->
         \/ cm.lineno - m.lineno = 0 /\ cm.start > m.start
         \/ cm.lineno - m.lineno > 0 /\ (c.within = -1 \/ cm.lineno - m.lineno <= c.within)
    [] c.conditionType = "ConditionSurrounded" ->
         \/ AbsDist(m.lineno, cm.lineno) = 0
         \/ c.within = -1
         \/ AbsDist(m.lineno, cm.lineno) <= c.within
    [] c.conditionType = "ConditionFileMatches" -> TRUE
    [] c.conditionType = "ConditionLineMatches" -> cm.lineno = c.lineRangeStart
    [] OTHER -> c.lineRangeStart <= cm.lineno /\ cm.lineno <= c.lineRangeEnd

\* Condition i is satisfied for m by at least one of its condition matches.
SatisfiedFor(i, m) == \E cm \in CondMatchesOf(i) : Satisfies(Conds[i], cm, m)

\* Every non-negated condition is satisfied for m and no negated one is.
Keeps(m) == \A i \in 1..Len(Conds) : SatisfiedFor(i, m) = ~Conds[i].negated

\* C11: after applyConditions the Result holds exactly the matches for which
\* every non-negated condition is satisfied by at least one condition match
\* and no negated condition is satisfied by any.
C11_KeepsExactlySatisfying ==
  applyCount = 1 => handlerResult.matches = SelectSeq(received.matches, Keeps)

\* C11 witness: with a preceded and a not-preceded-within condition, a match
\* that fulfils both was removed while another match was kept.
C11_Witness ==
  /\ applyCount = 1
  /\ Len(Conds) = 2
  /\ Conds[1].conditionType = "ConditionPreceded" /\ ~Conds[1].negated
  /\ Conds[2].conditionType = "ConditionPreceded" /\ Conds[2].negated /\ Conds[2].within = 1
  /\ \E m \in ReceivedMatches \ KeptMatches : SatisfiedFor(1, m) /\ SatisfiedFor(2, m)
  /\ KeptMatches # {}

\* A whole-file condition (file-matches, line-matches, range-matches).
IsFileCondition(c) == c.conditionType \notin DirectionalTypes

\* Some whole-file condition is negated and satisfied, or not negated and
\* satisfied by no condition match.
FileConditionFails ==
  \E i \in 1..Len(Conds) :
    /\ IsFileCondition(Conds[i])
    /\ (\E cm \in CondMatchesOf(i) : Satisfies(Conds[i], cm, cm)) = Conds[i].negated

\* Every directional condition holds for m as C11 asks.
KeepsDirectional(m) ==
  \A i \in 1..Len(Conds) :
    IsFileCondition(Conds[i]) \/ SatisfiedFor(i, m) = ~Conds[i].negated

\* C12: a file-matches condition is satisfied by any of its condition
\* matches, a line-matches condition by one on lineRangeStart, a range-matches
\* condition by one within the range; when a negated whole-file condition is
\* satisfied or a non-negated one is not, the Result ends without matches,
\* and otherwise the whole-file conditions remove nothing.
C12_WholeFileConditions ==
  applyCount = 1 =>
    IF FileConditionFails THEN handlerResult.matches = <<>>
    ELSE handlerResult.matches = SelectSeq(received.matches, KeepsDirectional)

\* C12 witness: a line-matches condition whose pattern matches in the target,
\* but on no line it names, has emptied a Result that had matches.
C12_Witness ==
  /\ applyCount = 1
  /\ Len(Conds) = 1
  /\ Conds[1].conditionType = "ConditionLineMatches" /\ ~Conds[1].negated
  /\ CondMatchesOf(1) # {}
  /\ \A cm \in CondMatchesOf(1) : cm.lineno > Conds[1].lineRangeStart
  /\ received.matches # <<>>
  /\ handlerResult.matches = <<>>

\* C13: for a preceded (followed) condition, with d the number of lines the
\* condition match lies before (after) the match, the condition match
\* satisfies the condition iff d = 0 and it starts strictly before (after)
\* the match, or d > 0 and d is within the limit, if there is one; a kept
\* match has such a condition match iff the condition is not negated, and
\* with this as the only condition every such match is kept.
C13_Directional ==
  applyCount = 1 =>
    \A i \in 1..Len(Conds) :
      Conds[i].conditionType \in {"ConditionPreceded", "ConditionFollowed"} =>
        \A m \in ReceivedMatches :
          LET sat == \E cm \in CondMatchesOf(i) :
                       LET d == IF Conds[i].conditionType = "ConditionPreceded"
                                THEN m.lineno - cm.lineno ELSE cm.lineno - m.lineno
                           before == IF Conds[i].conditionType = "ConditionPreceded"
                                     THEN cm.start < m.start ELSE cm.start > m.start
                       IN \/ d = 0 /\ before
                          \/ d > 0 /\ (Conds[i].within = -1 \/ d <= Conds[i].within)
          IN /\ m \in KeptMatches => (sat = ~Conds[i].negated)
             /\ (Len(Conds) = 1 /\ sat = ~Conds[i].negated) => m \in KeptMatches

\* C13 witness: under a single followed condition a match whose only
\* condition match on its line starts before it was removed, and a match
\* followed by a condition match was kept.
C13_Witness ==
  /\ applyCount = 1
  /\ Len(Conds) = 1
  /\ Conds[1].conditionType = "ConditionFollowed" /\ ~Conds[1].negated
  /\ \E m \in ReceivedMatches \ KeptMatches :
       /\ \E cm \in CondMatchesOf(1) : cm.lineno = m.lineno /\ cm.start < m.start
       /\ \A cm \in CondMatchesOf(1) : cm.lineno <= m.lineno
  /\ KeptMatches # {}

\* C14: a surrounded condition is satisfied for a match by a condition match
\* on the same line, by any condition match when there is no limit, and
\* otherwise by one at most within lines away, before or after the match;
\* a kept match has such a condition match iff the condition is not negated,
\* and with this as the only condition every such match is kept.
C14_Surrounded ==
  applyCount = 1 =>
    \A i \in 1..Len(Conds) :
      Conds[i].conditionType = "ConditionSurrounded" =>
        \A m \in ReceivedMatches :
          LET sat == \E cm \in CondMatchesOf(i) :
                       \/ AbsDist(m.lineno, cm.lineno) = 0
                       \/ Conds[i].within = -1
                       \/ AbsDist(m.lineno, cm.lineno) <= Conds[i].within
          IN /\ m \in KeptMatches => (sat = ~Conds[i].negated)
             /\ (Len(Conds) = 1 /\ sat = ~Conds[i].negated) => m \in KeptMatches

\* C14 witness: under a single surrounded-within-1 condition a match was kept
\* for a condition match on the line after it, and a match two lines from
\* the only condition match was removed.
C14_Witness ==
  /\ applyCount = 1
  /\ Len(Conds) = 1
  /\ Conds[1].conditionType = "ConditionSurrounded" /\ ~Conds[1].negated
  /\ Conds[1].within = 1
  /\ \E m \in KeptMatches : \A cm \in CondMatchesOf(1) : cm.lineno = m.lineno + 1
  /\ \E m \in ReceivedMatches \ KeptMatches :
       \A cm \in CondMatchesOf(1) : AbsDist(cm.lineno, m.lineno) = 2

\* C15: a second applyConditions on the filtered Result removes nothing: the
\* matches after two applications are the matches after one.
C15_Idempotent ==
  applyCount = 2 =>
    handlerResult.matches = applyConditions(Conds, received).matches

\* C15 witness: applyConditions has run twice on a Result of which the first
\* run removed some matches and kept others.
C15_Witness ==
  /\ applyCount = 2
  /\ Len(handlerResult.matches) > 0
  /\ Len(handlerResult.matches) < Len(received.matches)

RECURSIVE IsSubsequence(_, _)
\* a can be had from b by deleting elements.
IsSubsequence(a, b) ==
  IF a = <<>> THEN TRUE
  ELSE IF b = <<>> THEN FALSE
  ELSE IF Head(a) = Head(b) THEN IsSubsequence(Tail(a), Tail(b))
  ELSE IsSubsequence(a, Tail(b))

\* C16: applyConditions only removes matches: the matches left are a
\* subsequence of the matches received, each record unchanged, and the
\* condition matches and the other fields of the Result are as received.
C16_OnlyRemoves ==
  applyCount >= 1 =>
    /\ IsSubsequence(handlerResult.matches, received.matches)
    /\ handlerResult = [received EXCEPT !.matches = handlerResult.matches]

\* C16 witness: of three matches the first was removed and the other two
\* are left in their order.
C16_Witness ==
  /\ applyCount = 1
  /\ Len(received.matches) = 3
  /\ handlerResult.matches = Tail(received.matches)

\* ------------------------------------------------ gitignore properties
\* A line of the file that is a pattern: neither blank nor a comment.
IsPatternLine(line) == ~IsBlank(line) /\ ~HasPrefix(line, <<"#">>)

\* The part of the checked path below the directory of the .gitignore file.
TestPath == From(Abs(verdict.path), Len(gi.basePath) + 1)

\* The lines of the file, by line number, whose pattern matches the checked
\* entry; each line is taken on its own.
MatchingLines ==
  {i \in 1..Len(ignoreFile) :
     /\ IsPatternLine(ignoreFile[i])
     /\ Matches(patternMatcherOf(ignoreFile[i], gi.basePath), TestPath, verdict.fi)}

LastMatchingLine == CHOOSE i \in MatchingLines : \A j \in MatchingLines : j <= i

\* C17: within one .gitignore file the matching pattern that comes last in
\* file order decides: the entry is matched iff some line's pattern matches
\* it, and it is ignored iff the last such line does not start with '!'.
C17_LastPatternDecides ==
  verdict # <<>> =>
    IF MatchingLines = {}
    THEN ~verdict.res.matched /\ ~verdict.res.ignore
    ELSE /\ verdict.res.matched
         /\ verdict.res.ignore <=> ~HasPrefix(ignoreFile[LastMatchingLine], <<"!">>)

\* C17 witness: the file has a plain pattern and, on a later line, a '!'
\* pattern, both matching the checked entry; the later one decided and the
\* entry is not ignored.
C17_Witness ==
  /\ verdict # <<>>
  /\ \E i \in MatchingLines :
       /\ i < LastMatchingLine
       /\ ~HasPrefix(ignoreFile[i], <<"!">>)
       /\ HasPrefix(ignoreFile[LastMatchingLine], <<"!">>)
  /\ verdict.res.matched /\ ~verdict.res.ignore

\* ---------------------------------------------------- cache properties
Looking == {w \in DirRoutines : callers[w].pc = "lookup"}
Storing == {w \in DirRoutines : callers[w].pc = "store"}

\* The last assignment to the cache for path, as an index of stores.
LastStore(path) ==
  CHOOSE i \in 1..Len(stores) :
    /\ stores[i].path = path
    /\ \A j \in 1..Len(stores) : stores[j].path = path => j <= i

NoDuplicates(q) == \A i, j \in 1..Len(q) : q[i] = q[j] => i = j

\* C18: a goroutine looks the cache up only while it holds the shared lock
\* and no writer holds the mutex, and assigns to it only while it alone holds
\* the exclusive lock; no goroutine parses a .gitignore file twice; every
\* gitIgnore instance parsed from a file equals what newGitIgnore yields for
\* that file, so all callers' pattern lists for a path are equal; and the
\* cache holds, for every path assigned, the instance assigned last.
C18_CacheLocking ==
  /\ \A w \in Looking : w \in mu.readers /\ mu.writer = 0
  /\ \A w \in Storing : mu.writer = w /\ mu.readers = {} /\ Looking = {}
  /\ Cardinality(Storing) <= 1
  /\ \A w \in DirRoutines : NoDuplicates(callers[w].parsed)
  /\ \A w \in DirRoutines : \A k \in 1..Len(callers[w].gitIgnores) :
       \E f \in DOMAIN gitFiles :
         heap[callers[w].gitIgnores[k]] = newGitIgnore(f, gitFiles[f].lines)
  /\ \A i, j \in 1..Len(heap) :
       heap[i].basePath = heap[j].basePath => heap[i].patterns = heap[j].patterns
  /\ DOMAIN cache = {stores[i].path : i \in 1..Len(stores)}
  /\ \A f \in DOMAIN cache : cache[f] = stores[LastStore(f)].g

\* C18 witness: every directory is processed; two goroutines both missed the
\* working directory's .gitignore file in the cache, each parsed it once and
\* assigned its own instance; the two instances have equal patterns and the
\* cache holds the one assigned last.
C18_Witness ==
  /\ directoryChan = <<>>
  /\ \A w \in DirRoutines : callers[w].pc = "recv"
  /\ \E i, j \in 1..Len(stores) :
       /\ i < j /\ j = LastStore(RootIgnoreFile)
       /\ stores[i].path = RootIgnoreFile /\ stores[i].by # stores[j].by
       /\ stores[i].g # stores[j].g
       /\ heap[stores[i].g].patterns = heap[stores[j].g].patterns
       /\ cache[RootIgnoreFile] = stores[j].g
       /\ \E k \in 1..Len(callers[stores[i].by].gitIgnores) :
            callers[stores[i].by].gitIgnores[k] = stores[i].g

\* --------------------------------------------------- output properties
\* The matches printed for target t, as indices of the output.
PrintedMatches(t) ==
  {i \in 1..Len(out.printed) : out.printed[i].target = t /\ out.printed[i].kind = "match"}

\* The counts printed for target t, as indices of the output.
PrintedCounts(t) ==
  {i \in 1..Len(out.printed) : out.printed[i].target = t /\ out.printed[i].kind = "count"}

\* What the limit leaves of the matches the engine sent for target t, in its
\* Result and in the batches that followed.
Capped(t) == Min(options.Limit, Len(emittedMatches(log[t])))

\* C19: with a limit L > 0 no target ever has more than L matches printed or
\* a count above L printed; and when the run has ended, a target whose
\* matches were printed or counted has exactly min(L, the matches the engine
\* sent for it, in the Result and on matchChan) printed or counted, whatever
\* was printed for the other targets.
C19_LimitPerTarget ==
  options.Limit > 0 =>
    \A t \in TargetNames :
      /\ Cardinality(PrintedMatches(t)) <= options.Limit
      /\ \A i \in PrintedCounts(t) : out.printed[i].n <= options.Limit
      /\ main.pc = "done" =>
           /\ PrintedMatches(t) # {} => Cardinality(PrintedMatches(t)) = Capped(t)
           /\ \A i \in PrintedCounts(t) : out.printed[i].n = Capped(t)

\* C19 witness: two targets and limit 5; the run has ended; m's streaming
\* Result held 4 matches and the fifth came through matchChan, so 5 of its
\* matches are printed, and the one match of the second target is printed
\* after them.
C19_Witness ==
  /\ main.pc = "done"
  /\ targets = <<"m", Stdin>>
  /\ options.Limit = 5 /\ ~options.Count
  /\ streamingResults("m") = 1
  /\ Len(log["m"].results[1].matches) = 4
  /\ Len(flatten(log["m"].batches)) >= 1
  /\ Cardinality(PrintedMatches("m")) = 5
  /\ Cardinality(PrintedMatches(Stdin)) = 1
  /\ out.printed[Len(out.printed)].target = Stdin

\* The process has ended: main called os.Exit or errorLogger.Fatalf did.
Ended == main.pc = "done" \/ out.fatal # ""

\* C20 as stated: the process ends with 2 after a fatal error (an option
\* conflict, a pattern that does not compile, a target that cannot be
\* examined, a listener that cannot be opened), and otherwise with 0 when a
\* result was found and with 1 when none was.
C20_ExitStatus ==
  Ended =>
    exitStatus(out) = IF out.fatal # "" THEN 2
                      ELSE IF out.totalResultCount > 0 THEN 0 ELSE 1

\* ------------------------------------------ further engine properties
\* A NUL byte occurs among the first min(256, size) bytes of the target.
NulInHead ==
  \E i \in 1..Min(BinaryCheckLen, Len(fs["f"])) : fs["f"][i] = NUL

\* C21: the Result of a target has isBinary set iff a NUL byte occurs among
\* the first min(256, size) bytes of the target, however the reader cuts the
\* target into Reads.
C21_IsBinaryIffNul ==
  \A i \in 1..Len(sent.results) : sent.results[i].isBinary <=> NulInHead


\* The buffer holds a full block: the last Read filled it to InputBlockSize.
FullBlock == eng.lastInputBlockSize = InputBlockSize

\* The bytes the buffer held when the last Read returned: what was kept of
\* the block before, followed by the bytes of that Read.
BlockBytes == Slice(fs["f"], eng.rpos - eng.lastInputBlockSize, eng.rpos)

\* A newline byte occurs somewhere among the bytes the buffer holds.
BlockHasNewline ==
  \E i \in 0..(eng.lastInputBlockSize - 1) : At(BlockBytes, i) = NL

\* C22: the engine returns LineTooLong exactly when the buffer holds a full
\* block of InputBlockSize bytes without a newline byte and EOF has not been
\* reached; a full block with a newline anywhere is never rejected, with and
\* without Multiline.
C22_LineTooLongExactly ==
  /\ eng.how = "lineTooLong" => FullBlock /\ ~BlockHasNewline /\ ~eng.isEOF
  /\ (reads # <<>> /\ FullBlock /\ ~BlockHasNewline /\ ~eng.isEOF)
       => eng.how \in {"lineTooLong", "binarySkip"}

\* ------------------------------------------ counting properties
\* C23: the line-length error count reported at shutdown is the number of
\* targets whose processReader returned errLineTooLong, whatever the number
\* of workers that hit the error at the same time.
C23_NoLostIncrement == reported # -1 => reported = tooLong

\* ------------------------------------------ inverted path properties
\* The lines of the target as the normal single-line path reports them: the
\* line numbers of the matches processReader emits with the same options.
ReportedLines ==
  LET ms == emittedMatches(processReader(Context("f"),
                             processReaderInit(makeBuffer(InputBlockSize)), <<>>, EmptyLog))
  IN {ms[i].lineno : i \in 1..Len(ms)}

\* The number of lines of the target; a last line need not end in a newline.
LineCount ==
  Cardinality({i \in 1..Len(fs["f"]) : fs["f"][i] = NL})
    + (IF fs["f"] # <<>> /\ fs["f"][Len(fs["f"])] # NL THEN 1 ELSE 0)

\* The matches of the call's Result.
InvertedMatches == invSent[1].matches

\* The call has returned without a list option.
InvertedDone ==
  /\ inv # <<>> /\ inv.pc = "returned"
  /\ ~options.FilesWithMatches /\ ~options.FilesWithoutMatch

\* C24: the inverted path emits exactly one Match, with its line number, for
\* every line of the target that the normal single-line path does not
\* report, and none for the lines it reports, with and without IgnoreCase.
C24_InvertedIsComplement ==
  InvertedDone =>
    /\ Len(invSent) = 1
    /\ \A k \in 1..LineCount :
         Cardinality({i \in 1..Len(InvertedMatches) : InvertedMatches[i].lineno = k})
           = IF k \in ReportedLines THEN 0 ELSE 1
    /\ \A i \in 1..Len(InvertedMatches) : InvertedMatches[i].lineno \in 1..LineCount

\* ------------------------------------------ streaming properties
\* The streaming Results sent so far.
StreamingSent ==
  {r \in UNION {{log[t].results[i] : i \in 1..Len(log[t].results)} : t \in TargetNames} :
     r.streaming}

\* C25 as stated: a streaming Result is sent only without conditions, in a
\* run with a single target that is a regular file, STDIN or a network
\* target, and with more matches than the streaming threshold; with
\* conditions or several targets no Result is streaming.
C25_StreamingOnlySingleTarget ==
  \A r \in StreamingSent :
    /\ Len(global.conditions) = 0
    /\ singleStreamTarget(targets, env)
    /\ Len(r.matches) > global.streamingThreshold

\* C25 amended: a streaming Result is sent only without conditions and with
\* more matches than the streaming threshold, which is 0 in a run with a
\* single target that is a regular file, STDIN or a network target and
\* StreamingThreshold in every other run; with conditions no Result is
\* streaming, with several targets a Result is streaming once it holds more
\* than StreamingThreshold matches.
C25_StreamingOnlyWithoutConditions ==
  \A r \in StreamingSent :
    /\ Len(global.conditions) = 0
    /\ global.streamingAllowed
    /\ global.streamingThreshold =
         (IF singleStreamTarget(targets, env) THEN 0 ELSE StreamingThreshold)
    /\ Len(r.matches) > global.streamingThreshold

\* C25 witness: a run with two targets and no conditions has ended, and the
\* Result of m was sent streaming when it held more than StreamingThreshold
\* matches.
C25_Witness ==
  /\ main.pc = "done"
  /\ targets = <<"m", Stdin>>
  /\ Len(global.conditions) = 0
  /\ \E r \in StreamingSent :
       r.target = "m" /\ Len(r.matches) > StreamingThreshold
  /\ \A r \in StreamingSent : r.target # Stdin

\* ------------------------------------------ sorting properties
\* The first of the candidates, in the order of the patterns, that starts
\* where m starts.
firstCandidateAt(m) ==
  LET cs == sorting.candidates
      i == CHOOSE i \in 1..Len(cs) :
             cs[i].start = m.start /\ \A j \in 1..(i - 1) : cs[j].start # m.start
  IN cs[i]

\* C26: of the candidates of several patterns with the same start, the one
\* kept by the duplicate filter is the candidate of the pattern that comes
\* first in the pattern list, for every input.
C26_FirstPatternWins ==
  (sorting # <<>> /\ sorting.pc = "done") =>
    \A i \in 1..Len(sorting.newMatches) :
      sorting.newMatches[i] = firstCandidateAt(sorting.newMatches[i])

\* ------------------------------------------ context properties
\* The offsets in the target where a line starts before offset lineStart.
LineStartsBefore(lineStart) ==
  {p \in 0..(lineStart - 1) : p = 0 \/ fs["f"][p] = NL}

\* The min(K, lineno - 1) lines of the target that come immediately before
\* the line that starts at lineStart, without the newline of the last one:
\* nil when the line is the first.
LinesBefore(lineStart, K) ==
  LET ps == LineStartsBefore(lineStart)
      from == CHOOSE p \in ps :
                Cardinality({q \in ps : q >= p}) = Min(K, Cardinality(ps))
  IN IF ps = {} THEN NilString
     ELSE StringPtr(Slice(fs["f"], from, lineStart - 1))

\* C27: with ContextBefore = K > 0 the contextBefore of every match of a file
\* target holds exactly the min(K, lineno - 1) lines that come immediately
\* before the first line of the match, whether they were taken from the block
\* or read again from the file.
C27_ContextBeforeExact ==
  \A i \in 1..Len(Emitted) :
    options.ContextBefore > 0 =>
      Emitted[i].contextBefore = LinesBefore(Emitted[i].lineStart, options.ContextBefore)

\* ------------------------------------------ options properties
\* Context lines are asked for.
WithContext == options.ContextBefore > 0 \/ options.ContextAfter > 0

\* One of the targets is STDIN or a network target.
StreamTarget == \E i \in 1..Len(targets) : targets[i] = Stdin \/ isNetTarget(targets[i])

\* C28: options.Apply returns an error, and no search starts, whenever
\* InvertMatch comes with Multiline, with a network target or with context
\* lines, and whenever context lines come with an STDIN or network target.
C28_ConflictsRejected ==
  main # <<>> /\ main.pc # "apply" =>
    /\ ~(options.InvertMatch /\ options.Multiline)
    /\ ~(options.InvertMatch /\ \E i \in 1..Len(targets) : isNetTarget(targets[i]))
    /\ ~(options.InvertMatch /\ WithContext)
    /\ ~(WithContext /\ StreamTarget)

\* ------------------------------------------ regex ownership properties
\* C29: no compiled regex a file worker has searched with was searched with
\* by another file worker or by the result handler, on the normal path and on
\* the inverted path.
C29_RegexesPerWorker ==
  workers # <<>> /\ "used" \in DOMAIN handler =>
    /\ \A w1, w2 \in CountWorkers :
         w1 # w2 => workers[w1].used \cap workers[w2].used = {}
    /\ \A w \in CountWorkers : workers[w].used \cap handler.used = {}

\* ------------------------------------------ multiline window properties
\* The spans of the matches given, in order.
Spans(ms) == [i \in 1..Len(ms) |-> <<ms[i].start, ms[i].end>>]

\* The matches of the target when the whole input is read in one block.
OneBlockMatches == emittedMatches(readInOneBlock(Context("f")))

\* No match of the target is longer than the overlap window.
MatchesFitWindow ==
  \A i \in 1..Len(OneBlockMatches) :
    OneBlockMatches[i].end - OneBlockMatches[i].start <= InputMultilineWindow

\* C30: in multiline mode, when no match is longer than the overlap window,
\* the matches of the target are emitted exactly once each, none lost and none
\* twice, wherever the reads put the block boundaries.
C30_WindowEmitsOnce ==
  (EngineDone /\ options.Multiline /\ MatchesFitWindow) =>
    Spans(Emitted) = Spans(OneBlockMatches)

\* ------------------------------------------ binary-skip properties
\* C31: when processReader returns for binary-skip, the target's offset is
\* still 0, no match of the target has been accumulated or emitted, and no
\* Result, streaming or not, has been sent for it.
C31_BinarySkipLeavesNothing ==
  eng.how = "binarySkip" =>
    /\ eng.offset = 0
    /\ eng.matches = <<>> /\ eng.matchCount = 0
    /\ sent.results = <<>> /\ sent.batches = <<>>

\* C31 witness: binary-skip ended the target on a later Read than the first,
\* behind a byte a that the pattern matches.
C31_Witness ==
  /\ eng.how = "binarySkip"
  /\ Len(reads) >= 2
  /\ fs["f"][1] = "a"

\* ------------------------------------------ buffer properties
\* The overlap window is copied to the buffer head by the next iteration.
WindowPending == options.Multiline /\ eng.lastRoundMultilineWindow

\* The bytes the buffer keeps for the next iteration: data[0:bufferOffset],
\* followed in multiline mode by the window that iteration copies behind it.
KeptBytes ==
  Slice(eng.data, 0, eng.bufferOffset)
    \o (IF WindowPending
        THEN Slice(eng.data, eng.lastInputBlockSize - InputMultilineWindow,
                   eng.lastInputBlockSize)
        ELSE <<>>)

\* C32: at the start of every Read the bytes kept in the buffer are exactly
\* the bytes of the input from offset up to what has been read, offset is the
\* number of bytes consumed (no byte is skipped and none is kept twice), and
\* bufferOffset is below InputBlockSize so that the Read gets a slice that is
\* not empty.
C32_BufferConservation ==
  eng.pc = "loop" =>
    /\ 0 <= eng.offset /\ eng.offset <= eng.rpos
    /\ eng.offset + Len(KeptBytes) = eng.rpos
    /\ KeptBytes = Slice(fs["f"], eng.offset, eng.rpos)
    /\ eng.bufferOffset < InputBlockSize
    /\ readRoom(Context("f"), eng) > 0

\* C32 witness: multiline mode, before a Read that follows a windowed block of
\* which a part behind the last newline was kept as well, with bytes consumed.
C32_Witness ==
  /\ eng.pc = "loop"
  /\ WindowPending
  /\ eng.bufferOffset > 0 /\ eng.offset > 0
  /\ Len(reads) >= 2

\* ------------------------------------------ limit properties
\* The matches printed for the target, in order.
RenderedMatches ==
  LET at == {i \in 1..Len(out.printed) : out.printed[i].kind = "match"}
      nth(k) == CHOOSE i \in at : Cardinality({j \in at : j <= i}) = k
  IN [k \in 1..Cardinality(at) |-> out.printed[nth(k)].m]

\* The matches the same run without a limit leaves for printing.
UnlimitedMatches ==
  applyConditions(global.conditions,
                  resultOf(processReader([Context("f") EXCEPT !.options.Limit = 0],
                                         processReaderInit(makeBuffer(InputBlockSize)),
                                         <<>>, EmptyLog))).matches

\* C33: with a limit L > 0 and conditions, the matches printed for a target
\* are the first min(L, n) of the n matches the run without a limit prints.
C33_LimitIsPrefix ==
  (applyCount = 1 /\ out # <<>> /\ options.Limit > 0) =>
    RenderedMatches = SubSeq(UnlimitedMatches, 1, Min(options.Limit, Len(UnlimitedMatches)))

\* ------------------------------------------ directory walk properties
\* The processDirectory calls in progress.
WalkFrames == UNION {{<<w, k>> : k \in 1..Len(callers[w].stack)} : w \in WalkRoutines}

\* The directories for which enqueueDirectory has added to the wait group and
\* not yet reached its select.
WalkSelecting ==
  {f \in WalkFrames : callers[f[1]].stack[f[2]].pc = "select"}

\* The directories below the target, the target included.
RECURSIVE WalkBelow(_)
WalkBelow(d) ==
  {d} \cup UNION {WalkBelow(fs[d][i]) : i \in {j \in 1..Len(fs[d]) : fs[d][j] \in WalkDirs}}

\* C34: enqueueDirectory never waits for room in the directory queue (the
\* queue never holds more than its capacity and a routine at the select can
\* always go on); every directory is processed at most once, and exactly once
\* when the wait for the recursion wait group has returned; and the count of
\* the wait group is the number of directories queued, being enqueued or
\* being processed, so it is never zero while there is one.
C34_EnqueueDirectory ==
  callers # <<>> /\ DOMAIN global = {"recurseWaitGroup"} =>
    /\ Len(directoryChan.buf) <= WalkDirChanCap
    /\ \A d \in WalkDirs : log[d] <= 1
    /\ main.pc # "targets" => \A d \in WalkDirs : log[d] = IF d \in WalkBelow("r") THEN 1 ELSE 0
    /\ global.recurseWaitGroup
         = Len(directoryChan.buf) + Cardinality(WalkFrames) + Cardinality(WalkSelecting)
    /\ \A d \in WalkDirs :
         Cardinality({f \in WalkFrames : callers[f[1]].stack[f[2]].dir = d})
           + Cardinality({i \in 1..Len(directoryChan.buf) : directoryChan.buf[i] = d})
           + log[d] <= 1

\* C34 witness: a routine processes a directory inline, inside the call for
\* its parent, while the queue is full; the walk then ends.
C34_Witness ==
  /\ callers # <<>> /\ DOMAIN global = {"recurseWaitGroup"}
  /\ \E w \in WalkRoutines : Len(callers[w].stack) >= 2
  /\ Len(directoryChan.buf) = WalkDirChanCap


\* The files below the target.
WalkFiles ==
  {<<d, i>> \in WalkBelow("r") \X (1..3) : i <= Len(fs[d]) /\ fs[d][i] = WalkFile}

\* No directory is queued or being processed.
WalkOver ==
  /\ directoryChan.buf = <<>>
  /\ \A w \in WalkRoutines : callers[w].stack = <<>>

\* The network targets of the run.
WalkNetTargets == {i \in 1..Len(targets) : isNetTarget(targets[i])}

\* The Results of files and the Results of network targets among the Results
\* that wait in the results channel or have been handled.
WalkResults == resultsChan.buf \o out.printed
WalkFileResults == Cardinality({i \in 1..Len(WalkResults) : ~isNetTarget(WalkResults[i][1])})
WalkNetResults == Cardinality({i \in 1..Len(WalkResults) : isNetTarget(WalkResults[i][1])})

\* The workers that have been started and have not returned.
WalkRunning == {p \in DOMAIN procs : procs[p].pc \notin {"unstarted", "exited"}}

\* C35: no send ever meets a closed channel; the directory queue is closed
\* only when every directory has been processed, the file queue only when the
\* directory routines have sent every file, the results channel only when
\* every file worker and the network worker have returned (the wait group
\* counts the workers that have not), with every file received and every
\* Result sent, and executeSearch goes on to the total counters only when the
\* handler has counted every Result.
C35_ShutdownOrder ==
  callers # <<>> /\ DOMAIN global = {"recurseWaitGroup"} =>
    /\ out.fatal = ""
    /\ out.totalTargetCount = Len(out.printed)
    /\ targetsWaitGroup = Cardinality(WalkRunning)
    /\ directoryChan.closed =>
         WalkOver /\ \A d \in WalkBelow("r") : log[d] = 1
    /\ filesChan.closed =>
         /\ WalkOver
         /\ Len(filesChan.buf) + Cardinality({p \in WalkFileWorkers : procs[p].pc = "send"})
              + WalkFileResults = Cardinality(WalkFiles)
    /\ resultsChan.closed =>
         /\ \A p \in WalkFileWorkers : procs[p].pc = "exited"
         /\ procs[NetWorker].pc = IF WalkNetTargets = {} THEN "unstarted" ELSE "exited"
         /\ filesChan.buf = <<>>
         /\ WalkFileResults = Cardinality(WalkFiles)
         /\ WalkNetResults = Cardinality(WalkNetTargets)
    /\ main.pc = "done" =>
         /\ resultsChan.buf = <<>> /\ handler.pc = "exited"
         /\ out.totalTargetCount = Cardinality(WalkFiles) + Cardinality(WalkNetTargets)

\* C35 witness: executeSearch has returned after a walk over four directories
\* with two files and a network target: every channel is closed, every file
\* worker and the network worker have returned and the three Results are
\* counted, the one of the network target last.
C35_Witness ==
  /\ callers # <<>> /\ DOMAIN global = {"recurseWaitGroup"}
  /\ main.pc = "done"
  /\ directoryChan.closed /\ filesChan.closed /\ resultsChan.closed
  /\ Cardinality(WalkFiles) = 2 /\ out.totalTargetCount = 3
  /\ isNetTarget(out.printed[3][1])
  /\ procs[NetWorker].pc = "exited"
  /\ \A p \in WalkFileWorkers : procs[p].pc = "exited"
  /\ \A w \in WalkRoutines : callers[w].exited

\* ======================================== line correction specification
\* getMatches in single-line mode on one block: the candidates of
\* regex.FindAllIndex, then the loop that re-matches within each line.

\* The longest block of this specification.
CorrectionLen == 7

CorrectionInputs == UNION {[1..n -> EngineBytes] : n \in 0..CorrectionLen}
CorrectionPatterns == {PatANLPlus, PatNotBA, PatBol}

InitCorrection ==
  /\ options = DefaultOptions
  /\ \E pattern \in CorrectionPatterns :
       global = ApplyOptions(options, <<pattern>>, <<>>, TRUE)
  /\ \E input \in CorrectionInputs : fs = [t \in {"f"} |-> input]
  /\ InputBlockSize = CorrectionLen + 1
  /\ eng = processReaderInit(<<>>) /\ sent = EmptyLog /\ reads = <<>>
  /\ PipeUnused /\ CondUnused /\ IgnoreUnused /\ CacheUnused /\ CountUnused
  /\ InvertUnused
  /\ sorting = [pc |-> "find", found |-> <<>>, allIndex |-> <<>>, matches |-> <<>>]

\* The compiled pattern of this specification.
correctionRegex == preparePattern(options, global.matchPatterns[1])

\* allIndex := regex.FindAllIndex(testBuffer, -1)
CorrectionFind ==
  /\ sorting.pc = "find"
  /\ LET allIndex == FindAllIndex(correctionRegex, fs["f"])
     IN sorting' = [sorting EXCEPT !.pc = "loop", !.found = allIndex,
                                   !.allIndex = allIndex]
  /\ UNCHANGED <<options, global, InputBlockSize, fs, engineVars, pipeVars, condVars,
                 ignoreVars, cacheVars, countVars, invertVars>>

\* for mi := 0; mi < len(allIndex); mi++ { ... }
CorrectionLoop ==
  /\ sorting.pc = "loop"
  /\ LET data == fs["f"]
         r == getMatchesLoop([regex |-> correctionRegex, data |-> data,
                              testBuffer |-> data, offset |-> 0, length |-> Len(data),
                              validMatchRange |-> Len(data), conditionID |-> 0,
                              multiline |-> options.Multiline,
                              ContextBefore |-> options.ContextBefore,
                              file |-> [input |-> data,
                                        InputBlockSize |-> InputBlockSize]],
                             sorting.allIndex, 1, <<>>)
     IN sorting' = [sorting EXCEPT !.pc = "done", !.allIndex = r.allIndex,
                                   !.matches = r.matches]
  /\ UNCHANGED <<options, global, InputBlockSize, fs, engineVars, pipeVars, condVars,
                 ignoreVars, cacheVars, countVars, invertVars>>

NextCorrection == CorrectionFind \/ CorrectionLoop

SpecCorrection == InitCorrection /\ [][NextCorrection]_vars

\* The candidates the loop has appended to allIndex.
Appended == SubSeq(sorting.allIndex, Len(sorting.found) + 1, Len(sorting.allIndex))

\* The lines of the block: one for each newline, and one more for bytes after
\* the last newline.
BlockLines ==
  LET data == fs["f"]
  IN countNewlines(data, Len(data))
       + (IF Len(data) > 0 /\ data[Len(data)] # NL THEN 1 ELSE 0)

\* Every appended candidate lies within the block and holds no newline, so
\* its own iteration appends nothing.
AppendedWithinLines ==
  \A i \in 1..Len(Appended) :
    /\ 0 <= Appended[i][1] /\ Appended[i][1] <= Appended[i][2]
    /\ Appended[i][2] <= Len(fs["f"])
    /\ ~containsNewline(fs["f"], Appended[i][1], Appended[i][2])

\* C36 as stated: the loop ends, every appended candidate lies within one line
\* and holds no newline, and the appended candidates are at most as many as
\* the lines of the block.
C36_AppendedBoundedByLines ==
  sorting.pc = "done" => AppendedWithinLines /\ Len(Appended) <= BlockLines

\* C36, amended: the loop ends, every appended candidate lies within one line
\* and holds no newline, and the appended candidates are at most twice as many
\* as the lines of the block: a line is re-matched once for each raw match
\* that spans one of its two newlines.
C36_AppendedBoundedByTwiceLines ==
  sorting.pc = "done" => AppendedWithinLines /\ Len(Appended) <= 2 * BlockLines

\* Two raw matches that span lines share a line, which is re-matched twice.
C36_Witness ==
  /\ sorting.pc = "done"
  /\ Len(Appended) > BlockLines
  /\ \E i, j \in 1..Len(Appended) : i < j /\ Appended[i] = Appended[j]

\* ============================================ ignore-case specification
\* One processReader call in single-line mode with options.IgnoreCase, for
\* every pattern text of one or two of the tokens below, every input up to
\* MaxLen bytes of a, b, A and newline, and every way the reader may cut the
\* input into Reads.
CaseTokens ==
  {<<"a">>, <<"A">>, <<Backslash, "s">>, <<Backslash, "S">>, <<"[", "A", "-", "B", "]">>}

CaseTexts == CaseTokens \cup {t1 \o t2 : t1 \in CaseTokens, t2 \in CaseTokens}

\* The options of this specification: --ignore-case and one pattern given
\* with --regexp.
CaseOptions(text) ==
  [f \in DOMAIN DefaultOptions \cup {"Patterns"} |->
     IF f = "Patterns" THEN <<[text |-> text]>>
     ELSE IF f \in {"IgnoreCase", "ShowLineNumbers"} THEN TRUE
     ELSE DefaultOptions[f]]

InitCase ==
  /\ \E text \in CaseTexts : options = CaseOptions(text)
  /\ global = ApplyOptions(options, options.Patterns, <<>>, TRUE)
  /\ InputBlockSize = MaxLen + 1
  /\ \E input \in InvertInputs : fs = [t \in {"f"} |-> input]
  /\ eng = processReaderInit(makeBuffer(InputBlockSize))
  /\ sent = EmptyLog
  /\ reads = <<>>
  /\ PipeUnused
  /\ OthersUnused

NextCase == EngineRead \/ EngineEOF

SpecCase == InitCase /\ [][NextCase]_vars

\* The k-th line of input, without its newline.
NthLine(input, k) ==
  LET newlines == {i \in 0..(Len(input) - 1) : At(input, i) = NL}
      start == IF k = 1 THEN 0
               ELSE 1 + CHOOSE i \in newlines :
                          Cardinality({j \in newlines : j < i}) = k - 2
  IN Slice(input, start, lineEndFrom(input, start))

\* The user's pattern as written, matching without regard to letter case:
\* every class also holds the other case of its letters.
IgnoringCase ==
  LET re == preparePatternKeepCase(options, options.Patterns[1])
  IN [re EXCEPT !.atoms =
        [i \in 1..Len(re.atoms) |->
           [re.atoms[i] EXCEPT !.cls =
              {c \in Bytes \cup {"B"} :
                 \E d \in re.atoms[i].cls : toLowerRune(c) = toLowerRune(d)}]]]

\* The lines the user's pattern matches when letter case is ignored.
LinesMatchingIgnoringCase ==
  {k \in 1..LineCount : RegexMatch(IgnoringCase, NthLine(fs["f"], k))}

\* C37: with IgnoreCase a line is reported iff the user's pattern matches it
\* when letter case is ignored; lower-casing the pattern text never turns an
\* escape or a class into a different construct.
C37_IgnoreCaseReportsMatchingLines ==
  EngineDone => {Emitted[i].lineno : i \in 1..Len(Emitted)} = LinesMatchingIgnoringCase

\* ============================================ checker specification
\* One Checker as processDirectory uses it: LoadBasePath(dirname) for the
\* directory /r/d, named absolutely or relative to the working directory /r,
\* with or without a .gitignore file in /r/d, in /r and in the root, and then
\* Check(filepath.Join(dirname, fi.Name()), fi) for an entry of the directory.
CheckerBase == <<"/", "r", "/", "d">>

CheckerDirnames == {<<"d">>, CheckerBase}

\* The directories LoadBasePath visits: the base directory, its parent and
\* the root.
CheckerDirs == {CheckerBase, Dir(CheckerBase), Dir(Dir(CheckerBase))}

\* The names of the entries of the directory.
CheckerNames == {<<"a">>, <<"b">>}

\* No .gitignore file in a directory: os.Stat returns an error.
NoFile == <<"-">>

\* The path relative to the directory dir, which contains it.
RelativeTo(dir, path) == From(path, Len(Join(dir, <<>>)))

\* The lines of a .gitignore file of the directory dir: the name a, its
\* negation, and the entry a of the base directory anchored to dir with a
\* leading slash.
CheckerLines(dir) ==
  {<<"a">>, <<"!", "a">>, <<"/">> \o RelativeTo(dir, Join(CheckerBase, <<"a">>))}

\* The longest .gitignore file of this specification.
MaxCheckerLines == 2

CheckerFiles(dir) ==
  {NoFile} \cup UNION {[1..n -> CheckerLines(dir)] : n \in 0..MaxCheckerLines}

\* The entries of dirname that processDirectory checks.
Candidates(dirname) ==
  {[path |-> Join(dirname, name), isDir |-> FALSE] : name \in CheckerNames}

InitChecker ==
  /\ options = DefaultOptions
  /\ global = ApplyOptions(options, <<PatA>>, <<>>, FALSE)
  /\ InputBlockSize = BlockSize
  /\ fs = <<>>
  /\ eng = processReaderInit(<<>>) /\ sent = EmptyLog /\ reads = <<>>
  /\ PipeUnused /\ CondUnused /\ CacheUnused /\ CountUnused /\ InvertUnused /\ SortUnused
  /\ \E inBase \in CheckerFiles(CheckerBase), inParent \in CheckerFiles(Dir(CheckerBase)),
        inRoot \in CheckerFiles(Dir(Dir(CheckerBase))) :
       ignoreFile = [d \in CheckerDirs |->
                       IF d = CheckerBase THEN inBase
                       ELSE IF d = Dir(CheckerBase) THEN inParent ELSE inRoot]
  /\ \E dirname \in CheckerDirnames :
       gi = [dirname |-> dirname, gitIgnores |-> <<>>,
             curPath |-> Abs(dirname), lastPath |-> <<>>]
  /\ scanned = 0
  /\ verdict = <<>>

\* One iteration of "for curPath != lastPath" in LoadBasePath.
LoadBasePathStep ==
  /\ gi.curPath # gi.lastPath
  /\ LET file == Join(gi.curPath, GitIgnoreFilename)
         found == gi.curPath \in DOMAIN ignoreFile /\ ignoreFile[gi.curPath] # NoFile
     IN gi' = [gi EXCEPT !.gitIgnores = IF found
                                        THEN Append(@, newGitIgnore(file, ignoreFile[gi.curPath]))
                                        ELSE @,
                         !.curPath = Dir(gi.curPath), !.lastPath = gi.curPath]
  /\ UNCHANGED <<options, global, InputBlockSize, fs, engineVars, pipeVars, condVars,
                 countVars, invertVars, sorting, cacheVars, ignoreFile, scanned, verdict>>

RECURSIVE CheckFrom(_, _, _, _)
\* "for _, gi := range c.gitIgnores" from index i on.
CheckFrom(gitIgnores, i, path, fi) ==
  IF i > Len(gitIgnores) THEN FALSE
  ELSE IF check(gitIgnores[i], path, fi).matched
  THEN check(gitIgnores[i], path, fi).ignore
  ELSE CheckFrom(gitIgnores, i + 1, path, fi)

\* Checker.Check(path, fi)
Check(c, path, fi) == CheckFrom(c.gitIgnores, 1, path, fi)

\* gic.Check(fullpath, fi) for one entry of the directory, once LoadBasePath
\* has returned.
CheckCandidate ==
  /\ gi.curPath = gi.lastPath
  /\ verdict = <<>>
  /\ \E e \in Candidates(gi.dirname) :
       verdict' = [path |-> e.path, fi |-> FileInfo(e),
                   res |-> Check(gi, e.path, FileInfo(e))]
  /\ UNCHANGED <<options, global, InputBlockSize, fs, engineVars, pipeVars, condVars,
                 countVars, invertVars, sorting, cacheVars, ignoreFile, gi, scanned>>

NextChecker == LoadBasePathStep \/ CheckCandidate

SpecChecker == InitChecker /\ [][NextChecker]_vars

\* The directory dir contains the absolute path.
DirContains(dir, path) ==
  HasPrefix(path, Join(dir, <<>>)) /\ Len(path) > Len(Join(dir, <<>>))

\* Some pattern of the loaded file g matches the candidate, named relative
\* to the directory of the file, which contains it.
SomePatternMatches(g, path, fi) ==
  /\ DirContains(g.basePath, Abs(path))
  /\ \E i \in 1..Len(g.patterns) :
       Matches(g.patterns[i], RelativeTo(g.basePath, Abs(path)), fi)

\* What the patterns of g say about the candidate: the last pattern that
\* matches decides.
VerdictOf(g, path, fi) ==
  checkLoop(g.patterns, Len(g.patterns) - 1, RelativeTo(g.basePath, Abs(path)), fi).ignore

\* C38: Check consults the loaded files from the base directory upward; the
\* first file in which some pattern matches the candidate decides, a file
\* whose directory does not contain the candidate never decides, and with no
\* matching pattern in any file the candidate is not ignored.
C38_FirstMatchingFileDecides ==
  verdict # <<>> /\ "gitIgnores" \in DOMAIN gi =>
    LET deciding == {i \in 1..Len(gi.gitIgnores) :
                       SomePatternMatches(gi.gitIgnores[i], verdict.path, verdict.fi)}
    IN /\ \A i \in 1..(Len(gi.gitIgnores) - 1) :
            Len(gi.gitIgnores[i].basePath) > Len(gi.gitIgnores[i + 1].basePath)
       /\ IF deciding = {} THEN verdict.res = FALSE
          ELSE LET first == CHOOSE i \in deciding : \A j \in deciding : i <= j
               IN verdict.res = VerdictOf(gi.gitIgnores[first], verdict.path, verdict.fi)

\* ------------------------------------------- failed loads and the cache
\* The loads that have failed so far.
FailedLoads == callers[1].errors + callers[2].errors

\* C39: when loading a .gitignore file fails, get stores nothing for that
\* path: the cache never holds an entry for a file that cannot be loaded,
\* every entry is the whole pattern list of its file, and a get for such a
\* path misses the cache and loads the file again.
C39_FailedLoadNotCached ==
  /\ \A p \in DOMAIN cache :
       /\ gitFiles[p].readable
       /\ heap[cache[p]] = newGitIgnore(p, gitFiles[p].lines)
  /\ \A i \in 1..Len(stores) : gitFiles[stores[i].path].readable
  /\ \A w \in DirRoutines :
       /\ callers[w].pc \in {"lookup", "parse"} /\ ~gitFiles[callers[w].ignoreFile].readable
            => callers[w].ignoreFile \notin DOMAIN cache
       /\ callers[w].pc \in {"Lock", "store"} => gitFiles[callers[w].ignoreFile].readable

\* Two loads of the unreadable file have failed and the cache has no entry
\* for it.
C39_Witness ==
  /\ FailedLoads >= 2
  /\ ~gitFiles[RootIgnoreFile].readable
  /\ RootIgnoreFile \notin DOMAIN cache
  /\ \A w \in DirRoutines : callers[w].pc = "recv"

====
